---- MODULE Spec2Model ----
\* Verification model of package iri (contomap/iri): Parse, IRI.String,
\* IRI.Check, normalizePercentEncoding and resolveReference.
\*
\* A Go string is modelled as a sequence of Unicode code points (integers);
\* the regular expressions of the package are modelled as syntax trees that
\* are interpreted with the leftmost-first semantics of Go's regexp package.
EXTENDS Integers, Sequences, FiniteSets, TLC

\* ---------------------------------------------------------------------------
\* Characters and strings
\* ---------------------------------------------------------------------------

\* The printable ASCII characters in code point order, starting at U+0020.
AsciiTable ==
  << " ", "!", "QUOTE", "#", "$", "%", "&", "'", "(", ")", "*", "+", ",", "-", ".", "/",
     "0", "1", "2", "3", "4", "5", "6", "7", "8", "9", ":", ";", "<", "=", ">", "?",
     "@", "A", "B", "C", "D", "E", "F", "G", "H", "I", "J", "K", "L", "M", "N", "O",
     "P", "Q", "R", "S", "T", "U", "V", "W", "X", "Y", "Z", "[", "BACKSLASH", "]", "^", "_",
     "BACKQUOTE", "a", "b", "c", "d", "e", "f", "g", "h", "i", "j", "k", "l", "m", "n", "o",
     "p", "q", "r", "s", "t", "u", "v", "w", "x", "y", "z", "{", "|", "}", "~" >>

\* Code point of a one-character string.
CodeOf ==
  [c \in {AsciiTable[i] : i \in DOMAIN AsciiTable} \cup {"\n"} |->
     IF c = "\n" THEN 10 ELSE 31 + (CHOOSE i \in DOMAIN AsciiTable : AsciiTable[i] = c)]

\* A string literal: Str(<<"a", ":">>) is the Go string "a:".
Str(cs) == [i \in 1..Len(cs) |-> CodeOf[cs[i]]]

\* s[from:to] of Go with 0-based half-open bounds.
Slice(s, from, to) == SubSeq(s, from + 1, to)

\* The set of the characters of a string.
Range(s) == {s[k] : k \in DOMAIN s}

RECURSIVE Concat(_)
\* Concatenation of a sequence of strings.
Concat(ss) == IF ss = <<>> THEN <<>> ELSE Head(ss) \o Concat(Tail(ss))

\* ---------------------------------------------------------------------------
\* Regular expressions (Go regexp, leftmost-first)
\* ---------------------------------------------------------------------------

Rng(a, b) == <<CodeOf[a], CodeOf[b]>>
One(a) == <<CodeOf[a], CodeOf[a]>>

Cls(ranges) == [t |-> "cls", r |-> ranges]
Neg(ranges) == [t |-> "neg", r |-> ranges]
\* `.` without the s flag: any character but a line feed.
Dot == [t |-> "neg", r |-> {<<10, 10>>}]
Cat(xs) == [t |-> "cat", xs |-> xs]
Alt(xs) == [t |-> "alt", xs |-> xs]
Rep(x, lo, hi) == [t |-> "rep", x |-> x, lo |-> lo, hi |-> hi]
Star(x) == Rep(x, 0, -1)
Plus(x) == Rep(x, 1, -1)
Opt(x) == Rep(x, 0, 1)
Lit(c) == Cls({One(c)})

InRanges(c, ranges) == \E r \in ranges : r[1] <= c /\ c <= r[2]

RECURSIVE UniqFrom(_, _, _)
UniqFrom(q, k, acc) ==
  IF k > Len(q) THEN acc
  ELSE UniqFrom(q, k + 1, IF \E j \in DOMAIN acc : acc[j] = q[k] THEN acc ELSE Append(acc, q[k]))

\* The sequence without its repeated elements, first occurrences kept.
Uniq(q) == IF Len(q) <= 1 THEN q ELSE UniqFrom(q, 1, <<>>)

RECURSIVE Ends(_, _, _), MapEnds(_, _, _, _), CatEnds(_, _, _, _), AltEnds(_, _, _, _), RepEnds(_, _, _, _, _), MapRep(_, _, _, _, _, _)

\* Ends(re, s, i): the end positions of the matches of re in s that begin at
\* position i, in the order in which a backtracking matcher prefers them.
Ends(re, s, i) ==
  CASE re.t = "cls" -> IF i < Len(s) /\ InRanges(s[i + 1], re.r) THEN <<i + 1>> ELSE <<>>
    [] re.t = "neg" -> IF i < Len(s) /\ ~InRanges(s[i + 1], re.r) THEN <<i + 1>> ELSE <<>>
    [] re.t = "cat" -> CatEnds(re.xs, 1, s, <<i>>)
    [] re.t = "alt" -> Uniq(AltEnds(re.xs, 1, s, i))
    [] re.t = "rep" -> Uniq(RepEnds(re.x, re.lo, re.hi, s, i))

MapEnds(re, s, starts, k) ==
  IF k > Len(starts) THEN <<>>
  ELSE Ends(re, s, starts[k]) \o MapEnds(re, s, starts, k + 1)

CatEnds(xs, k, s, starts) ==
  IF k > Len(xs) \/ starts = <<>> THEN starts
  ELSE CatEnds(xs, k + 1, s, Uniq(MapEnds(xs[k], s, starts, 1)))

AltEnds(xs, k, s, i) ==
  IF k > Len(xs) THEN <<>>
  ELSE Ends(xs[k], s, i) \o AltEnds(xs, k + 1, s, i)

\* Greedy repetition: one more iteration is preferred to stopping.
RepEnds(x, lo, hi, s, i) ==
  IF hi = 0 THEN <<i>>
  ELSE LET one == Ends(x, s, i)
           fwd == IF lo > 0 THEN one ELSE SelectSeq(one, LAMBDA e : e > i)
           more == MapRep(x, IF lo > 0 THEN lo - 1 ELSE 0, IF hi > 0 THEN hi - 1 ELSE hi, s, fwd, 1)
       IN IF lo > 0 THEN more ELSE more \o <<i>>

MapRep(x, lo, hi, s, starts, k) ==
  IF k > Len(starts) THEN <<>>
  ELSE RepEnds(x, lo, hi, s, starts[k]) \o MapRep(x, lo, hi, s, starts, k + 1)

\* Whether a match of re that begins at position i ends at the end of s.
MatchesToEnd(re, s, i) == \E e \in {Ends(re, s, i)} : \E k \in DOMAIN e : e[k] = Len(s)

\* re.MatchString(s) for an expression anchored as "^" + re + "$".
MatchString(re, s) == MatchesToEnd(re, s, 0)

\* End of the preferred match of re at position i, or -1 if there is none.
FirstEnd(re, s, i) == Head(Ends(re, s, i) \o <<-1>>)

\* ---------------------------------------------------------------------------
\* Grammar of RFC 3987 as the package's regular expression constants
\* ---------------------------------------------------------------------------

hex == Cls({Rng("0", "9"), Rng("A", "F"), Rng("a", "f")})
alphaChars == Cls({Rng("a", "z"), Rng("A", "Z")})
digitChars == Cls({Rng("0", "9")})
\* \xA0-\x{D7FF}, \x{F900}-\x{FDCF}, \x{FDF0}-\x{FFEF}, \x{10000}-\x{1FFFD},
\* ..., \x{D0000}-\x{DFFFD}, \x{E1000}-\x{EFFFD}
ucschar ==
  Cls({<<160, 55295>>,
       <<63744, 64975>>,
       <<65008, 65519>>,
       <<65536, 131069>>,
       <<131072, 196605>>,
       <<196608, 262141>>,
       <<262144, 327677>>,
       <<327680, 393213>>,
       <<393216, 458749>>,
       <<458752, 524285>>,
       <<524288, 589821>>,
       <<589824, 655357>>,
       <<655360, 720893>>,
       <<720896, 786429>>,
       <<786432, 851965>>,
       <<851968, 917501>>,
       <<921600, 983037>>})
dashDotUnderscoreTilde == Cls({One("-"), One("."), One("_"), One("~")})
unreserved == Alt(<<alphaChars, digitChars, dashDotUnderscoreTilde>>)
iunreserved == Alt(<<alphaChars, digitChars, dashDotUnderscoreTilde, ucschar>>)

subDelims ==
  Cls({One("!"), One("$"), One("&"), One("'"), One("("), One(")"), One("*"), One("+"),
       One(","), One(";"), One("=")})
pctEncoded == Cat(<<Lit("%"), hex, hex>>)
pctEncodedOneOrMore == Plus(pctEncoded)

ipchar == Alt(<<iunreserved, pctEncoded, subDelims, Cls({One(":"), One("@")})>>)

scheme ==
  Cat(<<alphaChars, Star(Alt(<<alphaChars, digitChars, Cls({One("+"), One("-"), One(".")})>>))>>)

decOctet ==
  Alt(<<digitChars,
        Cat(<<Cls({Rng("1", "9")}), digitChars>>),
        Cat(<<Lit("1"), digitChars, digitChars>>),
        Cat(<<Lit("2"), Cls({Rng("0", "4")}), digitChars>>),
        Cat(<<Lit("2"), Lit("5"), Cls({Rng("0", "5")})>>)>>)
\* The separators are written as an unescaped `.` in the source.
ipV4Address == Cat(<<decOctet, Dot, decOctet, Dot, decOctet, Dot, decOctet>>)
h16 == Rep(hex, 1, 4)
h16Colon == Cat(<<h16, Lit(":")>>)
colonColon == Cat(<<Lit(":"), Lit(":")>>)
ls32 == Alt(<<Cat(<<h16, Lit(":"), h16>>), ipV4Address>>)
ipV6Address ==
  Alt(<<Cat(<<Rep(h16Colon, 6, 6), ls32>>),
        Cat(<<colonColon, Rep(h16Colon, 5, 5), ls32>>),
        Cat(<<Opt(h16), colonColon, Rep(h16Colon, 4, 4), ls32>>),
        Cat(<<Opt(Cat(<<Rep(h16Colon, 0, 1), h16>>)), colonColon, Rep(h16Colon, 3, 3), ls32>>),
        Cat(<<Opt(Cat(<<Rep(h16Colon, 0, 2), h16>>)), colonColon, Rep(h16Colon, 2, 2), ls32>>),
        Cat(<<Opt(Cat(<<Rep(h16Colon, 0, 3), h16>>)), colonColon, h16Colon, ls32>>),
        Cat(<<Opt(Cat(<<Rep(h16Colon, 0, 4), h16>>)), colonColon, ls32>>),
        Cat(<<Opt(Cat(<<Rep(h16Colon, 0, 5), h16>>)), colonColon, h16>>),
        Cat(<<Opt(Cat(<<Rep(h16Colon, 0, 6), h16>>)), colonColon>>)>>)
ipVFuture ==
  Cat(<<Lit("v"), hex, Lit("."), Star(Alt(<<unreserved, subDelims, Lit(":")>>))>>)
ipLiteral == Cat(<<Lit("["), Alt(<<ipV6Address, ipVFuture>>), Lit("]")>>)

iuserinfo == Star(Alt(<<iunreserved, pctEncoded, subDelims, Lit(":")>>))
port == Star(digitChars)
iregName == Star(Alt(<<iunreserved, pctEncoded, subDelims>>))
ihost == Alt(<<ipLiteral, ipV4Address, iregName>>)
iauthority == Cat(<<Opt(Cat(<<iuserinfo, Lit("@")>>)), ihost, Opt(Cat(<<Lit(":"), port>>))>>)

isegment == Star(ipchar)
isegmentnz == Plus(ipchar)
\* A single character: the source has no repetition on this group.
isegmentnznc == Alt(<<iunreserved, pctEncoded, subDelims, Lit("@")>>)
ipathabempty == Star(Cat(<<Lit("/"), isegment>>))
ipathabsolute == Cat(<<Lit("/"), Opt(Cat(<<isegmentnz, Star(Cat(<<Lit("/"), isegment>>))>>))>>)
ipathnoscheme == Cat(<<isegmentnznc, Star(Cat(<<Lit("/"), isegment>>))>>)
ipathrootless == Cat(<<isegmentnz, Star(Cat(<<Lit("/"), isegment>>))>>)
ipathempty == Cat(<<>>)
ipath == Alt(<<ipathabempty, ipathabsolute, ipathnoscheme, ipathrootless, ipathempty>>)

\* \x{E000}-\x{F8FF}, \x{F0000}-\x{FFFFD}, \x{100000}-\x{10FFFD}
iprivate == Cls({<<57344, 63743>>, <<983040, 1048573>>, <<1048576, 1114109>>})
iquery == Star(Alt(<<ipchar, iprivate, Cls({One("/"), One("?")})>>))
ifragment == Star(Alt(<<ipchar, Cls({One("/"), One("?")})>>))

\* The compiled matchers, each "^" + expression + "$".
schemeRE(s) == MatchString(scheme, s)
iauthorityRE(s) == MatchString(iauthority, s)
ipathRE(s) == MatchString(ipath, s)
iqueryRE(s) == MatchString(iquery, s)
ifragmentRE(s) == MatchString(ifragment, s)
iunreservedRE(s) == MatchString(iunreserved, s)

\* The five top-level groups of uriRE,
\* ^(([^:/?#]+):)?(//([^/?#]*))?([^?#]*)(\?([^#]*))?(#(.*))?
uriRESchemeWithColon ==
  Opt(Cat(<<Plus(Neg({One(":"), One("/"), One("?"), One("#")})), Lit(":")>>))
uriREAuthorityWithSlashSlash ==
  Opt(Cat(<<Lit("/"), Lit("/"), Star(Neg({One("/"), One("?"), One("#")}))>>))
uriREPath == Star(Neg({One("?"), One("#")}))
uriREQueryWithMark == Opt(Cat(<<Lit("?"), Star(Neg({One("#")}))>>))
uriREFragmentWithHash == Opt(Cat(<<Lit("#"), Star(Dot)>>))

RECURSIVE uriREGroupEnds(_, _, _, _)
\* The ends of the top-level groups from group k on, the match being at
\* position i: each group can match the empty string, so each takes its
\* preferred match in turn.
uriREGroupEnds(groups, k, s, i) ==
  IF k > Len(groups) THEN <<>>
  ELSE <<FirstEnd(groups[k], s, i)>> \o uriREGroupEnds(groups, k + 1, s, FirstEnd(groups[k], s, i))

\* The submatches Parse reads, by the names of their indices, for the ends e
\* of the five top-level groups.
uriRESubmatch(s, e) ==
  [whole |-> Slice(s, 0, e[5]),
   uriRESchemeGroup |-> IF e[1] > 0 THEN Slice(s, 0, e[1] - 1) ELSE <<>>,
   uriREAuthorityWithSlashSlashGroup |-> Slice(s, e[1], e[2]),
   uriREAuthorityGroup |-> IF e[2] > e[1] THEN Slice(s, e[1] + 2, e[2]) ELSE <<>>,
   uriREPathGroup |-> Slice(s, e[2], e[3]),
   uriREQueryWithMarkGroup |-> Slice(s, e[3], e[4]),
   uriREQueryGroup |-> IF e[4] > e[3] THEN Slice(s, e[3] + 1, e[4]) ELSE <<>>,
   uriREFragmentWithHashGroup |-> Slice(s, e[4], e[5]),
   uriREFragmentGroup |-> IF e[5] > e[4] THEN Slice(s, e[4] + 1, e[5]) ELSE <<>>]

\* uriRE.FindStringSubmatch(s). The expression has no "$", so it matches a
\* prefix of every string.
uriRE(s) ==
  uriRESubmatch(s, uriREGroupEnds(<<uriRESchemeWithColon, uriREAuthorityWithSlashSlash, uriREPath,
                                    uriREQueryWithMark, uriREFragmentWithHash>>, 1, s, 0))

iauthorityUserInfoWithAt == Opt(Cat(<<iuserinfo, Lit("@")>>))
iauthorityHostPort == Cat(<<ihost, Opt(Cat(<<Lit(":"), port>>))>>)

\* The submatches of iauthorityCaptureRE when its first group ends at `end`.
iauthorityCaptureSubmatch(auth, end) ==
  [matched |-> TRUE,
   iauthorityUserInfoWithAtGroup |-> Slice(auth, 0, end),
   iauthorityUserInfoGroup |-> IF end > 0 THEN Slice(auth, 0, end - 1) ELSE <<>>,
   iauthorityHostPortGroup |-> Slice(auth, end, Len(auth))]

\* iauthorityCaptureRE.FindStringSubmatch(auth) for
\* ^(?:((iuserinfo)@)?((?:ihost)(?:\:(?:port))?))$ : the preferred end of the
\* user information group from which the rest matches up to the end.
iauthorityCaptureRE(auth) ==
  LET ok == SelectSeq(Ends(iauthorityUserInfoWithAt, auth, 0),
                      LAMBDA e : MatchesToEnd(iauthorityHostPort, auth, e))
  IN IF ok = <<>> THEN [matched |-> FALSE] ELSE iauthorityCaptureSubmatch(auth, ok[1])

\* ---------------------------------------------------------------------------
\* Percent-encoding
\* ---------------------------------------------------------------------------

\* strings.ToUpper on one ASCII character.
ToUpper(c) == IF CodeOf["a"] <= c /\ c <= CodeOf["z"] THEN c - 32 ELSE c

\* The digit of fmt.Sprintf("%X") for a value below 16.
UpperHexDigit(n) == IF n < 10 THEN CodeOf["0"] + n ELSE CodeOf["A"] + (n - 10)

\* hexToByte[digitsStr]: the table has the 256 keys Sprintf("%02X", i); a key
\* that is not in the map reads as 0.
hexToByte(digitsStr) ==
  LET keys == {i \in 0..255 : <<UpperHexDigit(i \div 16), UpperHexDigit(i % 16)>> = digitsStr}
  IN IF keys = {} THEN 0 ELSE CHOOSE i \in keys : TRUE

\* byteToUppercasePercentEncoding[b], Sprintf("%%%02X", b).
byteToUppercasePercentEncoding(b) ==
  <<CodeOf["%"], UpperHexDigit(b \div 16), UpperHexDigit(b % 16)>>

\* A variant of octetsFrom that looks the digits up as they are written.
octetsFrom_CaseSensitive(pctEscaped) ==
  [i \in 1..(Len(pctEscaped) \div 3) |->
     hexToByte(Slice(pctEscaped, (i - 1) * 3 + 1, (i - 1) * 3 + 3))]

octetsFrom(pctEscaped) ==
  [i \in 1..(Len(pctEscaped) \div 3) |->
     LET start == (i - 1) * 3
         digitsStr == [k \in 1..2 |-> ToUpper(Slice(pctEscaped, start + 1, start + 3)[k])]
     IN hexToByte(digitsStr)]

RuneError == 65533

\* utf8.DecodeRune(p): the first code point of p and its width in octets;
\* (RuneError, 1) for an encoding that is not well-formed, (RuneError, 0) for
\* no octets.
DecodeRune(p) ==
  LET n == Len(p)
      bad == [codePoint |-> RuneError, size |-> 1]
      cont(b) == 128 <= b /\ b <= 191
      p0 == p[1]
      sz == IF p0 < 224 THEN 2 ELSE IF p0 < 240 THEN 3 ELSE 4
      lo == IF p0 = 224 THEN 160 ELSE IF p0 = 240 THEN 144 ELSE 128
      hi == IF p0 = 237 THEN 159 ELSE IF p0 = 244 THEN 143 ELSE 191
  IN IF n < 1 THEN [codePoint |-> RuneError, size |-> 0]
     ELSE IF p0 < 128 THEN [codePoint |-> p0, size |-> 1]
     ELSE IF p0 < 194 \/ p0 > 244 THEN bad
     ELSE IF n < sz THEN bad
     ELSE IF p[2] < lo \/ hi < p[2] THEN bad
     ELSE IF sz = 2 THEN [codePoint |-> (p0 % 32) * 64 + (p[2] % 64), size |-> 2]
     ELSE IF ~cont(p[3]) THEN bad
     ELSE IF sz = 3
          THEN [codePoint |-> (p0 % 16) * 4096 + (p[2] % 64) * 64 + (p[3] % 64), size |-> 3]
     ELSE IF ~cont(p[4]) THEN bad
     ELSE [codePoint |-> (p0 % 8) * 262144 + (p[2] % 64) * 4096 + (p[3] % 64) * 64 + (p[4] % 64),
           size |-> 4]

\* utf8.EncodeRune(buf, r): the octets written for a code point; a surrogate
\* or a value above U+10FFFF is written as RuneError.
EncodeRune(r) ==
  LET c == IF r < 0 \/ r > 1114111 \/ (55296 <= r /\ r <= 57343) THEN RuneError ELSE r
  IN IF c < 128 THEN <<c>>
     ELSE IF c < 2048 THEN <<192 + (c \div 64), 128 + (c % 64)>>
     ELSE IF c < 65536 THEN <<224 + (c \div 4096), 128 + ((c \div 64) % 64), 128 + (c % 64)>>
     ELSE <<240 + (c \div 262144), 128 + ((c \div 4096) % 64), 128 + ((c \div 64) % 64),
            128 + (c % 64)>>

RECURSIVE normalizeRun_PercentLiteral(_, _)
\* A variant of normalizeRun that also writes a decoded "%" literally.
normalizeRun_PercentLiteral(pctEscaped, unconsumedOctets) ==
  IF Len(unconsumedOctets) = 0 THEN [text |-> <<>>, failed |-> FALSE]
  ELSE LET d == DecodeRune(unconsumedOctets)
           octets == EncodeRune(d.codePoint)
           piece == IF iunreservedRE(<<d.codePoint>>) \/ d.codePoint = CodeOf["%"]
                    THEN <<d.codePoint>>
                    ELSE Concat([i \in 1..Len(octets) |-> byteToUppercasePercentEncoding(octets[i])])
           rest == normalizeRun_PercentLiteral(pctEscaped,
                     SubSeq(unconsumedOctets, d.size + 1, Len(unconsumedOctets)))
       IN IF d.codePoint = RuneError THEN [text |-> pctEscaped, failed |-> TRUE]
          ELSE IF rest.failed THEN rest
          ELSE [text |-> piece \o rest.text, failed |-> FALSE]

RECURSIVE normalizeRun(_, _)
\* The function literal given to ReplaceAllStringFunc, for the octets that are
\* still unconsumed of one run: the replacement text and whether an error was
\* appended to errs.
normalizeRun(pctEscaped, unconsumedOctets) ==
  IF Len(unconsumedOctets) = 0 THEN [text |-> <<>>, failed |-> FALSE]
  ELSE LET d == DecodeRune(unconsumedOctets)
           octets == EncodeRune(d.codePoint)
           piece == IF iunreservedRE(<<d.codePoint>>) THEN <<d.codePoint>>
                    ELSE Concat([i \in 1..Len(octets) |-> byteToUppercasePercentEncoding(octets[i])])
           rest == normalizeRun(pctEscaped,
                                SubSeq(unconsumedOctets, d.size + 1, Len(unconsumedOctets)))
       IN IF d.codePoint = RuneError THEN [text |-> pctEscaped, failed |-> TRUE]
          ELSE IF rest.failed THEN rest
          ELSE [text |-> piece \o rest.text, failed |-> FALSE]

RECURSIVE ReplaceAllStringFunc(_, _)
\* pctEncodedCharOneOrMore.ReplaceAllStringFunc(src, f) from position i on:
\* the leftmost matches, which do not overlap, are replaced one after the
\* other; failed tells whether the function literal recorded an error.
ReplaceAllStringFunc(src, i) ==
  IF i >= Len(src) THEN [text |-> <<>>, failed |-> FALSE]
  ELSE LET e == FirstEnd(pctEncodedOneOrMore, src, i)
       IN IF e < 0
          THEN LET rest == ReplaceAllStringFunc(src, i + 1)
               IN [text |-> <<src[i + 1]>> \o rest.text, failed |-> rest.failed]
          ELSE LET pctEscaped == Slice(src, i, e)
                   r == normalizeRun(pctEscaped, octetsFrom(pctEscaped))
                   rest == ReplaceAllStringFunc(src, e)
               IN [text |-> r.text \o rest.text, failed |-> r.failed \/ rest.failed]

\* ---------------------------------------------------------------------------
\* The IRI value and its operations
\* ---------------------------------------------------------------------------

\* IRI{}, the zero value of the struct.
ZeroIRI ==
  [Scheme |-> <<>>, EmptyAuth |-> FALSE, ForceUserInfo |-> FALSE, UserInfo |-> <<>>,
   Host |-> <<>>, Path |-> <<>>, ForceQuery |-> FALSE, Query |-> <<>>,
   ForceFragment |-> FALSE, Fragment |-> <<>>]

\* iri.normalizePercentEncoding(): the normalized value and whether an error
\* is returned; only Path is replaced.
normalizePercentEncoding(iri) ==
  LET r == ReplaceAllStringFunc(iri.Path, 0)
  IN IF r.failed THEN [iri |-> ZeroIRI, err |-> "encoding"]
     ELSE [iri |-> [iri EXCEPT !.Path = r.text], err |-> ""]

\* iri.NormalizePercentEncoding(): the receiver itself when the encoding is
\* invalid.
NormalizePercentEncoding(iri) ==
  LET n == normalizePercentEncoding(iri)
  IN IF n.err # "" THEN iri ELSE n.iri

\* A variant of validateComponents that lets every fragment pass.
validateComponents_FragmentUnchecked(match) ==
  LET schemeStr == match.uriRESchemeGroup
      auth == match.uriREAuthorityGroup
      path == match.uriREPathGroup
      query == match.uriREQueryGroup
  IN IF schemeStr # <<>> /\ ~schemeRE(schemeStr) THEN "scheme"
     ELSE IF auth # <<>> /\ ~iauthorityRE(auth) THEN "auth"
     ELSE IF path # <<>> /\ ~ipathRE(path) THEN "path"
     ELSE IF query # <<>> /\ ~iqueryRE(query) THEN "query"
     ELSE ""

\* A variant of validateComponents that does not check the scheme.
validateComponents_SchemeUnchecked(match) ==
  LET auth == match.uriREAuthorityGroup
      path == match.uriREPathGroup
      query == match.uriREQueryGroup
      fragment == match.uriREFragmentGroup
  IN IF auth # <<>> /\ ~iauthorityRE(auth) THEN "auth"
     ELSE IF path # <<>> /\ ~ipathRE(path) THEN "path"
     ELSE IF query # <<>> /\ ~iqueryRE(query) THEN "query"
     ELSE IF fragment # <<>> /\ ~ifragmentRE(fragment) THEN "fragment"
     ELSE ""

\* The checks of the raw components in Parse: "" if all pass, else the name
\* of the first component that does not match its expression.
validateComponents(match) ==
  LET schemeStr == match.uriRESchemeGroup
      auth == match.uriREAuthorityGroup
      path == match.uriREPathGroup
      query == match.uriREQueryGroup
      fragment == match.uriREFragmentGroup
  IN IF schemeStr # <<>> /\ ~schemeRE(schemeStr) THEN "scheme"
     ELSE IF auth # <<>> /\ ~iauthorityRE(auth) THEN "auth"
     ELSE IF path # <<>> /\ ~ipathRE(path) THEN "path"
     ELSE IF query # <<>> /\ ~iqueryRE(query) THEN "query"
     ELSE IF fragment # <<>> /\ ~ifragmentRE(fragment) THEN "fragment"
     ELSE ""

\* A variant of parsedFrom that keeps the normalized path.
parsedFrom_PathNormalized(match, authMatch) ==
  [Scheme |-> match.uriRESchemeGroup,
   EmptyAuth |-> Len(match.uriREAuthorityWithSlashSlashGroup) # 0
                 /\ (~authMatch.matched
                     \/ (authMatch.iauthorityUserInfoGroup = <<>>
                         /\ authMatch.iauthorityHostPortGroup = <<>>)),
   ForceUserInfo |-> authMatch.matched /\ authMatch.iauthorityUserInfoWithAtGroup # <<>>,
   UserInfo |-> IF authMatch.matched THEN authMatch.iauthorityUserInfoGroup ELSE <<>>,
   Host |-> IF authMatch.matched THEN authMatch.iauthorityHostPortGroup ELSE <<>>,
   Path |-> ReplaceAllStringFunc(match.uriREPathGroup, 0).text,
   ForceQuery |-> match.uriREQueryWithMarkGroup # <<>>,
   Query |-> match.uriREQueryGroup,
   ForceFragment |-> match.uriREFragmentWithHashGroup # <<>>,
   Fragment |-> match.uriREFragmentGroup]

\* The value `parsed` that Parse builds from the groups of the match and the
\* submatches authMatch of its authority.
parsedFrom(match, authMatch) ==
  LET userInfo == IF authMatch.matched THEN authMatch.iauthorityUserInfoGroup ELSE <<>>
      host == IF authMatch.matched THEN authMatch.iauthorityHostPortGroup ELSE <<>>
  IN [Scheme |-> match.uriRESchemeGroup,
      EmptyAuth |-> Len(match.uriREAuthorityWithSlashSlashGroup) # 0
                    /\ (userInfo = <<>> /\ host = <<>>),
      ForceUserInfo |-> authMatch.matched /\ authMatch.iauthorityUserInfoWithAtGroup # <<>>,
      UserInfo |-> userInfo,
      Host |-> host,
      Path |-> match.uriREPathGroup,
      ForceQuery |-> match.uriREQueryWithMarkGroup # <<>>,
      Query |-> match.uriREQueryGroup,
      ForceFragment |-> match.uriREFragmentWithHashGroup # <<>>,
      Fragment |-> match.uriREFragmentGroup]

parsedIRI(match) == parsedFrom(match, iauthorityCaptureRE(match.uriREAuthorityGroup))

\* A variant of parseResult that returns the value built so far when the
\* percent-encoding is invalid.
parseResult_PartialOnEncodingError(invalid, parsed) ==
  IF invalid # "" THEN [iri |-> ZeroIRI, err |-> invalid]
  ELSE IF normalizePercentEncoding(parsed).err # "" THEN [iri |-> parsed, err |-> "encoding"]
  ELSE [iri |-> parsed, err |-> ""]

\* The return statements of Parse for the outcome `invalid` of the checks and
\* the value `parsed`.
parseResult(invalid, parsed) ==
  IF invalid # "" THEN [iri |-> ZeroIRI, err |-> invalid]
  ELSE IF normalizePercentEncoding(parsed).err # "" THEN [iri |-> ZeroIRI, err |-> "encoding"]
  ELSE [iri |-> parsed, err |-> ""]

parseMatch(match) == parseResult(validateComponents(match), parsedIRI(match))

\* Parse(s): the value and the error ("" for nil, else the check that
\* failed). uriRE matches a prefix of every string, so the branch for
\* len(match) == 0 is never taken.
Parse(s) == parseMatch(uriRE(s))

\* iri.String()
String(iri) ==
  (IF iri.Scheme # <<>> THEN iri.Scheme \o Str(<<":">>) ELSE <<>>)
  \o (IF iri.EmptyAuth \/ iri.UserInfo # <<>> \/ iri.Host # <<>> THEN Str(<<"/", "/">>) ELSE <<>>)
  \o (IF iri.ForceUserInfo \/ iri.UserInfo # <<>> THEN iri.UserInfo \o Str(<<"@">>) ELSE <<>>)
  \o (IF iri.Host # <<>> THEN iri.Host ELSE <<>>)
  \o (IF iri.Path # <<>> THEN iri.Path ELSE <<>>)
  \o (IF iri.ForceQuery \/ iri.Query # <<>> THEN Str(<<"?">>) \o iri.Query ELSE <<>>)
  \o (IF iri.ForceFragment \/ iri.Fragment # <<>> THEN Str(<<"#">>) \o iri.Fragment ELSE <<>>)

\* iri.Check(): the error of Parse(iri.String()).
Check(iri) == Parse(String(iri)).err

\* ---------------------------------------------------------------------------
\* Reference resolution (resolve.go); the value has one Authority string and
\* the ForceAuthority flag there.
\* ---------------------------------------------------------------------------

ZeroRef ==
  [Scheme |-> <<>>, ForceAuthority |-> FALSE, Authority |-> <<>>, Path |-> <<>>,
   ForceQuery |-> FALSE, Query |-> <<>>, ForceFragment |-> FALSE, Fragment |-> <<>>]

\* Format(iri), the serializer for a value with one authority string: the
\* scheme and ":", "//" and the authority, the path, "?" and the query, "#"
\* and the fragment, each marker written if its flag is set or its component
\* is not empty.
Format(iri) ==
  (IF iri.Scheme # <<>> THEN iri.Scheme \o Str(<<":">>) ELSE <<>>)
  \o (IF iri.ForceAuthority \/ iri.Authority # <<>> THEN Str(<<"/", "/">>) \o iri.Authority ELSE <<>>)
  \o iri.Path
  \o (IF iri.ForceQuery \/ iri.Query # <<>> THEN Str(<<"?">>) \o iri.Query ELSE <<>>)
  \o (IF iri.ForceFragment \/ iri.Fragment # <<>> THEN Str(<<"#">>) \o iri.Fragment ELSE <<>>)

hasScheme(iri) == iri.Scheme # <<>>
hasAuthority(iri) == iri.ForceAuthority \/ iri.Authority # <<>>
hasQuery(iri) == iri.ForceQuery \/ iri.Query # <<>>

\* strings.IndexByte(s, c) and strings.LastIndexByte(s, c), -1 if c is absent.
IndexByte(s, c) ==
  IF \E k \in DOMAIN s : s[k] = c
  THEN (CHOOSE k \in DOMAIN s : s[k] = c /\ \A j \in 1..(k - 1) : s[j] # c) - 1
  ELSE -1
LastIndexByte(s, c) ==
  IF \E k \in DOMAIN s : s[k] = c
  THEN (CHOOSE k \in DOMAIN s : s[k] = c /\ \A j \in (k + 1)..Len(s) : s[j] # c) - 1
  ELSE -1

\* strings.TrimPrefix(s, "/")
TrimPrefixSlash(s) == IF s # <<>> /\ s[1] = CodeOf["/"] THEN Tail(s) ELSE s

Dot1 == Str(<<".">>)
Dot2 == Str(<<".", ".">>)

RECURSIVE resolvePathLoop_AscentKept(_, _, _, _, _)
\* A variant of the loop that keeps a ".." for which dst holds nothing to
\* remove.
resolvePathLoop_AscentKept(i, remaining, dst, first, last) ==
  IF i < 0
  THEN Str(<<"/">>) \o TrimPrefixSlash(IF last = Dot1 \/ last = Dot2 THEN dst \o Str(<<"/">>) ELSE dst)
  ELSE LET j == IndexByte(remaining, CodeOf["/"])
           elem == IF j < 0 THEN remaining ELSE Slice(remaining, 0, j)
           rest == IF j < 0 THEN <<>> ELSE Slice(remaining, j + 1, Len(remaining))
           last2 == IF j < 0 THEN remaining ELSE last
       IN IF elem = Dot1 THEN resolvePathLoop_AscentKept(j, rest, dst, FALSE, last2)
          ELSE IF elem = Dot2 /\ dst # <<>>
               THEN LET index == LastIndexByte(dst, CodeOf["/"])
                    IN IF index = -1 THEN resolvePathLoop_AscentKept(j, rest, <<>>, TRUE, last2)
                       ELSE resolvePathLoop_AscentKept(j, rest, Slice(dst, 0, index), first, last2)
          ELSE resolvePathLoop_AscentKept(j, rest, (IF ~first THEN dst \o Str(<<"/">>) ELSE dst) \o elem,
                                          FALSE, last2)

RECURSIVE resolvePathLoop_NoTrailingSlash(_, _, _, _, _)
\* A variant of the loop that writes no "/" after a final "." or "..".
resolvePathLoop_NoTrailingSlash(i, remaining, dst, first, last) ==
  IF i < 0
  THEN Str(<<"/">>) \o TrimPrefixSlash(dst)
  ELSE LET j == IndexByte(remaining, CodeOf["/"])
           elem == IF j < 0 THEN remaining ELSE Slice(remaining, 0, j)
           rest == IF j < 0 THEN <<>> ELSE Slice(remaining, j + 1, Len(remaining))
           last2 == IF j < 0 THEN remaining ELSE last
       IN IF elem = Dot1 THEN resolvePathLoop_NoTrailingSlash(j, rest, dst, FALSE, last2)
          ELSE IF elem = Dot2
               THEN LET index == LastIndexByte(dst, CodeOf["/"])
                    IN IF index = -1 THEN resolvePathLoop_NoTrailingSlash(j, rest, <<>>, TRUE, last2)
                       ELSE resolvePathLoop_NoTrailingSlash(j, rest, Slice(dst, 0, index), first, last2)
          ELSE resolvePathLoop_NoTrailingSlash(j, rest, (IF ~first THEN dst \o Str(<<"/">>) ELSE dst) \o elem,
                                               FALSE, last2)

RECURSIVE resolvePathLoop_DotPrefix(_, _, _, _, _)
\* A variant of the loop that takes every segment that begins with ".." for
\* "..".
resolvePathLoop_DotPrefix(i, remaining, dst, first, last) ==
  IF i < 0
  THEN Str(<<"/">>) \o TrimPrefixSlash(IF last = Dot1 \/ last = Dot2 THEN dst \o Str(<<"/">>) ELSE dst)
  ELSE LET j == IndexByte(remaining, CodeOf["/"])
           elem == IF j < 0 THEN remaining ELSE Slice(remaining, 0, j)
           rest == IF j < 0 THEN <<>> ELSE Slice(remaining, j + 1, Len(remaining))
           last2 == IF j < 0 THEN remaining ELSE last
       IN IF elem = Dot1 THEN resolvePathLoop_DotPrefix(j, rest, dst, FALSE, last2)
          ELSE IF Len(elem) >= 2 /\ Slice(elem, 0, 2) = Dot2
               THEN LET index == LastIndexByte(dst, CodeOf["/"])
                    IN IF index = -1 THEN resolvePathLoop_DotPrefix(j, rest, <<>>, TRUE, last2)
                       ELSE resolvePathLoop_DotPrefix(j, rest, Slice(dst, 0, index), first, last2)
          ELSE resolvePathLoop_DotPrefix(j, rest, (IF ~first THEN dst \o Str(<<"/">>) ELSE dst) \o elem,
                                         FALSE, last2)

RECURSIVE resolvePathLoop_DotKept(_, _, _, _, _)
\* A variant of the loop that writes "." like any other segment.
resolvePathLoop_DotKept(i, remaining, dst, first, last) ==
  IF i < 0
  THEN Str(<<"/">>) \o TrimPrefixSlash(IF last = Dot1 \/ last = Dot2 THEN dst \o Str(<<"/">>) ELSE dst)
  ELSE LET j == IndexByte(remaining, CodeOf["/"])
           elem == IF j < 0 THEN remaining ELSE Slice(remaining, 0, j)
           rest == IF j < 0 THEN <<>> ELSE Slice(remaining, j + 1, Len(remaining))
           last2 == IF j < 0 THEN remaining ELSE last
       IN IF elem = Dot2
          THEN LET index == LastIndexByte(dst, CodeOf["/"])
               IN IF index = -1 THEN resolvePathLoop_DotKept(j, rest, <<>>, TRUE, last2)
                  ELSE resolvePathLoop_DotKept(j, rest, Slice(dst, 0, index), first, last2)
          ELSE resolvePathLoop_DotKept(j, rest, (IF ~first THEN dst \o Str(<<"/">>) ELSE dst) \o elem,
                                       FALSE, last2)

RECURSIVE resolvePathLoop_PrefixKept(_, _, _, _, _)
\* A variant of the loop whose last statement puts "/" before dst without
\* trimming it.
resolvePathLoop_PrefixKept(i, remaining, dst, first, last) ==
  IF i < 0
  THEN Str(<<"/">>) \o (IF last = Dot1 \/ last = Dot2 THEN dst \o Str(<<"/">>) ELSE dst)
  ELSE LET j == IndexByte(remaining, CodeOf["/"])
           elem == IF j < 0 THEN remaining ELSE Slice(remaining, 0, j)
           rest == IF j < 0 THEN <<>> ELSE Slice(remaining, j + 1, Len(remaining))
           last2 == IF j < 0 THEN remaining ELSE last
       IN IF elem = Dot1 THEN resolvePathLoop_PrefixKept(j, rest, dst, FALSE, last2)
          ELSE IF elem = Dot2
               THEN LET index == LastIndexByte(dst, CodeOf["/"])
                    IN IF index = -1 THEN resolvePathLoop_PrefixKept(j, rest, <<>>, TRUE, last2)
                       ELSE resolvePathLoop_PrefixKept(j, rest, Slice(dst, 0, index), first, last2)
          ELSE resolvePathLoop_PrefixKept(j, rest, (IF ~first THEN dst \o Str(<<"/">>) ELSE dst) \o elem,
                                          FALSE, last2)

RECURSIVE resolvePathLoop(_, _, _, _, _)
\* The loop `for i >= 0` of resolvePath over its variables, followed by the
\* statements after the loop.
resolvePathLoop(i, remaining, dst, first, last) ==
  IF i < 0
  THEN Str(<<"/">>) \o TrimPrefixSlash(IF last = Dot1 \/ last = Dot2 THEN dst \o Str(<<"/">>) ELSE dst)
  ELSE LET j == IndexByte(remaining, CodeOf["/"])
           elem == IF j < 0 THEN remaining ELSE Slice(remaining, 0, j)
           rest == IF j < 0 THEN <<>> ELSE Slice(remaining, j + 1, Len(remaining))
           last2 == IF j < 0 THEN remaining ELSE last
       IN IF elem = Dot1 THEN resolvePathLoop(j, rest, dst, FALSE, last2)
          ELSE IF elem = Dot2
               THEN LET index == LastIndexByte(dst, CodeOf["/"])
                    IN IF index = -1 THEN resolvePathLoop(j, rest, <<>>, TRUE, last2)
                       ELSE resolvePathLoop(j, rest, Slice(dst, 0, index), first, last2)
          ELSE resolvePathLoop(j, rest, (IF ~first THEN dst \o Str(<<"/">>) ELSE dst) \o elem,
                               FALSE, last2)

\* A variant of resolvePath that appends a relative reference to the whole
\* base path.
resolvePath_MergeWholeBase(basePath, refPath) ==
  LET full == IF refPath = <<>> THEN basePath
              ELSE IF refPath[1] # CodeOf["/"] THEN basePath \o refPath
              ELSE refPath
  IN IF full = <<>> THEN <<>> ELSE resolvePathLoop(0, full, <<>>, TRUE, <<>>)

\* resolvePath(base, ref)
resolvePath(basePath, refPath) ==
  LET full == IF refPath = <<>> THEN basePath
              ELSE IF refPath[1] # CodeOf["/"]
                   THEN Slice(basePath, 0, LastIndexByte(basePath, CodeOf["/"]) + 1) \o refPath
              ELSE refPath
  IN IF full = <<>> THEN <<>> ELSE resolvePathLoop(0, full, <<>>, TRUE, <<>>)

\* A variant of resolveReference that takes the fragment of the base for a
\* reference that is empty but for its fragment.
resolveReference_FragmentInherited(b, r) ==
  IF hasScheme(r) THEN r
  ELSE IF hasAuthority(r)
       THEN [r EXCEPT !.Scheme = b.Scheme, !.Path = resolvePath(r.Path, <<>>)]
  ELSE IF hasQuery(r) \/ r.Path # <<>>
       THEN [r EXCEPT !.Scheme = b.Scheme, !.ForceAuthority = b.ForceAuthority,
                      !.Authority = b.Authority, !.Path = resolvePath(b.Path, r.Path)]
  ELSE [r EXCEPT !.Scheme = b.Scheme, !.ForceAuthority = b.ForceAuthority,
                 !.Authority = b.Authority, !.Path = resolvePath(b.Path, r.Path),
                 !.ForceQuery = b.ForceQuery, !.Query = b.Query,
                 !.ForceFragment = b.ForceFragment, !.Fragment = b.Fragment]

\* A variant of resolveReference that never takes the query of the base.
resolveReference_QueryNeverInherited(b, r) ==
  IF hasScheme(r) THEN r
  ELSE IF hasAuthority(r)
       THEN [r EXCEPT !.Scheme = b.Scheme, !.Path = resolvePath(r.Path, <<>>)]
  ELSE [r EXCEPT !.Scheme = b.Scheme, !.ForceAuthority = b.ForceAuthority,
                 !.Authority = b.Authority, !.Path = resolvePath(b.Path, r.Path)]

\* A variant of resolveReference that decides on the query by the resolved
\* path instead of the path of the reference.
resolveReference_QueryByResolvedPath(b, r) ==
  IF hasScheme(r) THEN r
  ELSE IF hasAuthority(r)
       THEN [r EXCEPT !.Scheme = b.Scheme, !.Path = resolvePath(r.Path, <<>>)]
  ELSE IF hasQuery(r) \/ resolvePath(b.Path, r.Path) # <<>>
       THEN [r EXCEPT !.Scheme = b.Scheme, !.ForceAuthority = b.ForceAuthority,
                      !.Authority = b.Authority, !.Path = resolvePath(b.Path, r.Path)]
  ELSE [r EXCEPT !.Scheme = b.Scheme, !.ForceAuthority = b.ForceAuthority,
                 !.Authority = b.Authority, !.Path = resolvePath(b.Path, r.Path),
                 !.ForceQuery = b.ForceQuery, !.Query = b.Query]

\* A variant of resolveReference that keeps the path of a reference with an
\* authority as it is given.
resolveReference_NetworkPathKept(b, r) ==
  IF hasScheme(r) THEN r
  ELSE IF hasAuthority(r) THEN [r EXCEPT !.Scheme = b.Scheme]
  ELSE IF hasQuery(r) \/ r.Path # <<>>
       THEN [r EXCEPT !.Scheme = b.Scheme, !.ForceAuthority = b.ForceAuthority,
                      !.Authority = b.Authority, !.Path = resolvePath(b.Path, r.Path)]
  ELSE [r EXCEPT !.Scheme = b.Scheme, !.ForceAuthority = b.ForceAuthority,
                 !.Authority = b.Authority, !.Path = resolvePath(b.Path, r.Path),
                 !.ForceQuery = b.ForceQuery, !.Query = b.Query]

\* A variant of resolveReference that removes the dot segments of the path of
\* a reference with a scheme.
resolveReference_SchemePathResolved(b, r) ==
  IF hasScheme(r) THEN [r EXCEPT !.Path = resolvePath(r.Path, <<>>)]
  ELSE IF hasAuthority(r)
       THEN [r EXCEPT !.Scheme = b.Scheme, !.Path = resolvePath(r.Path, <<>>)]
  ELSE IF hasQuery(r) \/ r.Path # <<>>
       THEN [r EXCEPT !.Scheme = b.Scheme, !.ForceAuthority = b.ForceAuthority,
                      !.Authority = b.Authority, !.Path = resolvePath(b.Path, r.Path)]
  ELSE [r EXCEPT !.Scheme = b.Scheme, !.ForceAuthority = b.ForceAuthority,
                 !.Authority = b.Authority, !.Path = resolvePath(b.Path, r.Path),
                 !.ForceQuery = b.ForceQuery, !.Query = b.Query]

\* resolveReference(base, ref)
resolveReference(b, r) ==
  IF hasScheme(r) THEN r
  ELSE IF hasAuthority(r)
       THEN [r EXCEPT !.Scheme = b.Scheme, !.Path = resolvePath(r.Path, <<>>)]
  ELSE IF hasQuery(r) \/ r.Path # <<>>
       THEN [r EXCEPT !.Scheme = b.Scheme, !.ForceAuthority = b.ForceAuthority,
                      !.Authority = b.Authority, !.Path = resolvePath(b.Path, r.Path)]
  ELSE [r EXCEPT !.Scheme = b.Scheme, !.ForceAuthority = b.ForceAuthority,
                 !.Authority = b.Authority, !.Path = resolvePath(b.Path, r.Path),
                 !.ForceQuery = b.ForceQuery, !.Query = b.Query]

\* ---------------------------------------------------------------------------
\* State machine: an operation of the package is applied to drawn inputs
\* ---------------------------------------------------------------------------

VARIABLES
  op,     \* the operation applied last ("input" and "value" before the first)
  input,  \* the string given to Parse
  trail,  \* the values the normalization was applied to, oldest first
  value,  \* the IRI value at hand: drawn, or returned by the last operation
  err,    \* the error of the last operation, "" for nil
  text,   \* the string returned by String
  base,   \* the receiver of ResolveReference
  ref,    \* the argument of ResolveReference
  pkg,    \* the package-level variables assigned since the package was initialized
  calls   \* the frame of the call each goroutine is in

vars == <<op, input, trail, value, err, text, base, ref, pkg, calls>>

\* Bounds of the drawn inputs.
MaxParts == 4
MaxPathParts == 3
MaxNormalize == 2
MaxSegments == 3

\* All concatenations of at most n of the given pieces.
Pieces(tokens, n) == {Concat(ts) : ts \in UNION {[1..k -> tokens] : k \in 0..n}}

\* Inputs of Parse: delimiters, a letter, a line feed, and percent-encoded
\* runs that are and are not UTF-8.
ParseTokens ==
  {Str(<<"a">>), Str(<<":">>), Str(<<"/">>), Str(<<"?">>), Str(<<"#">>), Str(<<"@">>),
   Str(<<"\n">>), Str(<<"%", "F", "F">>), Str(<<"%", "c", "2", "%", "B", "5">>)}
Inputs == Pieces(ParseTokens, MaxParts)

\* Values built by field assignment, for String and Check.
SmallStrings == {<<>>, Str(<<"a">>)}
ConstructedValues ==
  [Scheme : SmallStrings, EmptyAuth : BOOLEAN, ForceUserInfo : BOOLEAN,
   UserInfo : SmallStrings, Host : SmallStrings, Path : {<<>>, Str(<<"/", "a">>)},
   ForceQuery : BOOLEAN, Query : SmallStrings, ForceFragment : BOOLEAN,
   Fragment : SmallStrings]

\* Values built by field assignment, for the normalization: the path is made
\* of octets of several encodings, a lone "%" and plain characters.
PathTokens ==
  {Str(<<"%">>), Str(<<"1">>), Str(<<"/">>), Str(<<"%", "3", "4">>), Str(<<"%", "2", "0">>),
   Str(<<"%", "2", "5">>),
   Str(<<"%", "c", "2">>), Str(<<"%", "B", "5">>), Str(<<"%", "F", "F">>),
   Str(<<"%", "E", "F", "%", "B", "F", "%", "B", "D">>)}
OtherStrings == {Str(<<"%", "4", "1">>), Str(<<"%", "F", "F">>)}
OtherPaths == {<<>>, Str(<<"/", "%", "c", "2", "%", "B", "5">>)}
NormalizeValues ==
  {[ZeroIRI EXCEPT !.Path = p] : p \in Pieces(PathTokens, MaxPathParts)}
    \cup {[ZeroIRI EXCEPT !.Path = p, ![f] = x] :
            p \in OtherPaths, f \in {"Scheme", "UserInfo", "Host", "Query", "Fragment"},
            x \in OtherStrings}

\* Bases and references of the resolution: the base is absolute and has a
\* fragment; the reference has any combination of components.
SegmentTokens ==
  {Str(<<"/">>), Str(<<".">>), Str(<<".", ".">>), Str(<<".", ".", "/">>), Str(<<"g">>)}
Marked(strings) == {<<FALSE, x>> : x \in strings} \cup {<<TRUE, <<>> >>}
RefValues ==
  {[Scheme |-> sc, ForceAuthority |-> a[1], Authority |-> a[2], Path |-> p,
    ForceQuery |-> q[1], Query |-> q[2], ForceFragment |-> f[1], Fragment |-> f[2]] :
     sc \in {<<>>, Str(<<"t">>)}, a \in Marked({<<>>, Str(<<"h">>)}),
     p \in Pieces(SegmentTokens, MaxSegments),
     q \in Marked({<<>>, Str(<<"y">>)}), f \in Marked({<<>>, Str(<<"s">>)})}
BaseValues ==
  {[Scheme |-> sc, ForceAuthority |-> a[1], Authority |-> a[2], Path |-> p,
    ForceQuery |-> q[1], Query |-> q[2], ForceFragment |-> FALSE, Fragment |-> f] :
     sc \in {Str(<<"s">>)}, a \in Marked({<<>>, Str(<<"a">>)}),
     p \in {<<>>, Str(<<"/">>), Str(<<"b">>), Str(<<"/", "b", "/", "c">>)},
     q \in Marked({<<>>, Str(<<"q">>)}), f \in {Str(<<"f">>)}}

Blank ==
  /\ pkg = {}
  /\ calls = <<>>
  /\ trail = <<>>
  /\ err = ""
  /\ text = <<>>
  /\ base = ZeroRef
  /\ ref = ZeroRef

Init ==
  /\ op = "input"
  /\ input \in Inputs
  /\ value = ZeroIRI
  /\ Blank

InitValue ==
  /\ op = "value"
  /\ input = <<>>
  /\ value \in ConstructedValues
  /\ Blank

InitNormalize ==
  /\ op = "value"
  /\ input = <<>>
  /\ value \in NormalizeValues
  /\ Blank

InitResolve ==
  /\ op = "value"
  /\ input = <<>>
  /\ value = ZeroRef
  /\ pkg = {}
  /\ calls = <<>>
  /\ trail = <<>>
  /\ err = ""
  /\ text = <<>>
  /\ base \in BaseValues
  /\ ref \in RefValues

\* value, err := Parse(input)
DoParse ==
  /\ op = "input"
  /\ \E r \in {Parse(input)} :
       /\ value' = r.iri
       /\ err' = r.err
  /\ op' = "Parse"
  /\ UNCHANGED <<input, trail, text, base, ref, pkg, calls>>

\* text := value.String()
DoString ==
  /\ op \in {"Parse", "value"}
  /\ text' = String(value)
  /\ op' = "String"
  /\ UNCHANGED <<input, trail, value, err, base, ref, pkg, calls>>

\* err := value.Check()
DoCheck ==
  /\ op = "value"
  /\ err' = Check(value)
  /\ op' = "Check"
  /\ UNCHANGED <<input, trail, value, text, base, ref, pkg, calls>>

\* value, err := value.normalizePercentEncoding(), on a value that was drawn,
\* parsed without error, or normalized without error.
DoNormalize ==
  /\ op \in {"Parse", "value", "Normalize"}
  /\ err = ""
  /\ Len(trail) < MaxNormalize
  /\ \E r \in {normalizePercentEncoding(value)} :
       /\ value' = r.iri
       /\ err' = r.err
  /\ trail' = Append(trail, value)
  /\ op' = "Normalize"
  /\ UNCHANGED <<input, text, base, ref, pkg, calls>>

\* value := base.ResolveReference(ref)
DoResolve ==
  /\ op = "value"
  /\ value' = resolveReference(base, ref)
  /\ op' = "Resolve"
  /\ UNCHANGED <<input, trail, err, text, base, ref, pkg, calls>>

Next == DoParse \/ DoString \/ DoNormalize
NextValue == DoString \/ DoCheck
NextNormalize == DoNormalize
NextResolve == DoResolve

Spec == Init /\ [][Next]_vars
SpecValue == InitValue /\ [][NextValue]_vars
SpecNormalize == InitNormalize /\ [][NextNormalize]_vars
SpecResolve == InitResolve /\ [][NextResolve]_vars

\* Values built by field assignment whose host, path and query hold the
\* delimiters of other components.
DelimiterStrings ==
  {<<>>, Str(<<"a">>), Str(<<"a", "?", "a">>), Str(<<"a", "#", "a">>), Str(<<"a", "/", "a">>),
   Str(<<"a", ":", "a">>), Str(<<"a", "@", "a">>), Str(<<"/", "/", "a">>)}
DelimiterValues ==
  {[ZeroIRI EXCEPT !.Host = h, !.Path = p, !.Query = q] :
     h \in DelimiterStrings, p \in DelimiterStrings, q \in DelimiterStrings}

InitDelimiters ==
  /\ op = "value"
  /\ input = <<>>
  /\ value \in DelimiterValues
  /\ Blank

SpecDelimiters == InitDelimiters /\ [][NextValue]_vars

\* Inputs of Parse with digits, dots and spaces after the authority marker
\* or the query marker.
MaxHostParts == 7
HostTokens == {Str(<<"1">>), Str(<<".">>), Str(<<" ">>)}
HostInputs ==
  {prefix \o p : prefix \in {Str(<<"/", "/">>), Str(<<"?">>)},
                 p \in Pieces(HostTokens, MaxHostParts)}

InitHost ==
  /\ op = "input"
  /\ input \in HostInputs
  /\ value = ZeroIRI
  /\ Blank

NextHost == DoParse
SpecHost == InitHost /\ [][NextHost]_vars

\* References with longer paths, written character by character, a query and
\* a fragment with dot segments of their own, against bases that differ in
\* their path.
MaxRefChars == 5
RefChars == {Str(<<"/">>), Str(<<".">>), Str(<<"g">>)}
PathRefs ==
  {[Scheme |-> sc, ForceAuthority |-> FALSE, Authority |-> a, Path |-> p,
    ForceQuery |-> FALSE, Query |-> q, ForceFragment |-> FALSE, Fragment |-> f] :
     sc \in {<<>>, Str(<<"t">>)}, a \in {<<>>, Str(<<"h">>)},
     p \in Pieces(RefChars, MaxRefChars),
     q \in {<<>>, Str(<<"y", "/", ".", ".", "/", "x">>)},
     f \in {<<>>, Str(<<"s", "/", ".", "/", "x">>)}}
PathBases ==
  {[ZeroRef EXCEPT !.Scheme = Str(<<"s">>), !.Path = p, !.Query = Str(<<"q">>)] :
     p \in {<<>>, Str(<<"/">>), Str(<<"b">>), Str(<<"/", "b", "/", "c">>)}}

InitPath ==
  /\ op = "value"
  /\ input = <<>>
  /\ value = ZeroRef
  /\ pkg = {}
  /\ calls = <<>>
  /\ trail = <<>>
  /\ err = ""
  /\ text = <<>>
  /\ base \in PathBases
  /\ ref \in PathRefs

\* value := value.ResolveReference(IRI{}), on a value that was resolved.
DoResolveEmpty ==
  /\ op = "Resolve"
  /\ value' = resolveReference(value, ZeroRef)
  /\ trail' = Append(trail, value)
  /\ op' = "ResolveEmpty"
  /\ UNCHANGED <<input, err, text, base, ref, pkg, calls>>

NextPath == DoResolve \/ DoResolveEmpty
SpecPath == InitPath /\ [][NextPath]_vars

\* ---------------------------------------------------------------------------
\* Concurrent callers
\* ---------------------------------------------------------------------------

\* Goroutines that each make one call of the package.
MaxGoroutines == 2
Goroutines == 1..MaxGoroutines

\* The frame of a goroutine that has not called yet. A frame holds the
\* function called and its argument, the position in it, and the locals of
\* normalizePercentEncoding: its receiver iri, errs and replaced.
IdleFrame ==
  [pc |-> "idle", fn |-> "", arg |-> <<>>, iri |-> ZeroIRI, errs |-> <<>>,
   replaced |-> ZeroIRI, result |-> <<>>]

\* The calls a goroutine chooses from.
ConcurrentCalls ==
  {<<"Parse", s>> : s \in {Str(<<"a", ":", "%", "4", "1">>), Str(<<"%", "F", "F">>), Str(<<":", "\n">>)}}
  \cup {<<"NormalizePercentEncoding", [ZeroIRI EXCEPT !.Path = p]>> :
          p \in {Str(<<"%", "4", "1">>), Str(<<"%", "F", "F">>)}}
  \cup {<<"String", [ZeroIRI EXCEPT !.Path = Str(<<"a">>), !.ForceQuery = TRUE]>>}
  \cup {<<"ResolveReference",
          <<[ZeroRef EXCEPT !.Scheme = Str(<<"s">>), !.Path = Str(<<"/", "b", "/", "c">>)],
            [ZeroRef EXCEPT !.Path = Str(<<".", ".", "/", "g">>)]>> >>}

\* A variant of errsOf in which errs is one slice all the calls append to.
errsOf_PackageLevel(c, g) == Concat([k \in DOMAIN c |-> c[k].errs])

\* errs as the call of goroutine g reads it: `var errs []error` is a local of
\* normalizePercentEncoding, captured by the function literal of that call.
errsOf(c, g) == c[g].errs

\* A goroutine calls one of the exported functions.
GoCall(g) ==
  /\ calls[g].pc = "idle"
  /\ \E call \in ConcurrentCalls :
       calls' = [calls EXCEPT ![g] =
                   [IdleFrame EXCEPT !.fn = call[1], !.arg = call[2],
                      !.pc = IF call[1] = "NormalizePercentEncoding" THEN "normalize" ELSE call[1],
                      !.iri = IF call[1] = "NormalizePercentEncoding" THEN call[2] ELSE ZeroIRI]]
  /\ UNCHANGED <<op, input, trail, value, err, text, base, ref, pkg>>

\* Parse up to its call of parsed.normalizePercentEncoding().
GoParse(g) ==
  /\ calls[g].pc = "Parse"
  /\ \E match \in {uriRE(calls[g].arg)} :
       \E invalid \in {validateComponents(match)} :
         calls' = [calls EXCEPT ![g] =
                     IF invalid # ""
                     THEN [@ EXCEPT !.pc = "done", !.result = [iri |-> ZeroIRI, err |-> invalid]]
                     ELSE [@ EXCEPT !.pc = "normalize", !.iri = parsedIRI(match)]]
  /\ UNCHANGED <<op, input, trail, value, err, text, base, ref, pkg>>

\* normalizePercentEncoding: `var errs []error` and `replaced := iri`.
GoNormalizeBegin(g) ==
  /\ calls[g].pc = "normalize"
  /\ calls' = [calls EXCEPT ![g] = [@ EXCEPT !.pc = "replace", !.errs = <<>>, !.replaced = calls[g].iri]]
  /\ UNCHANGED <<op, input, trail, value, err, text, base, ref, pkg>>

\* normalizePercentEncoding: the assignment of replaced.Path, whose function
\* literal appends to errs.
GoNormalizeReplace(g) ==
  /\ calls[g].pc = "replace"
  /\ \E r \in {ReplaceAllStringFunc(calls[g].iri.Path, 0)} :
       calls' = [calls EXCEPT ![g] =
                   [@ EXCEPT !.pc = "return",
                             !.replaced = [@ EXCEPT !.Path = r.text],
                             !.errs = IF r.failed THEN Append(@, "encoding") ELSE @]]
  /\ UNCHANGED <<op, input, trail, value, err, text, base, ref, pkg>>

\* normalizePercentEncoding: `if len(errs) != 0` and the return statements,
\* then those of the caller, Parse or NormalizePercentEncoding.
GoNormalizeReturn(g) ==
  /\ calls[g].pc = "return"
  /\ \E failed \in {Len(errsOf(calls, g)) # 0} :
       calls' = [calls EXCEPT ![g] =
                   [@ EXCEPT !.pc = "done",
                             !.result =
                               IF calls[g].fn = "Parse"
                               THEN (IF failed THEN [iri |-> ZeroIRI, err |-> "encoding"]
                                     ELSE [iri |-> calls[g].iri, err |-> ""])
                               ELSE (IF failed THEN calls[g].iri ELSE calls[g].replaced)]]
  /\ UNCHANGED <<op, input, trail, value, err, text, base, ref, pkg>>

\* iri.String()
GoString(g) ==
  /\ calls[g].pc = "String"
  /\ calls' = [calls EXCEPT ![g] = [@ EXCEPT !.pc = "done", !.result = String(calls[g].arg)]]
  /\ UNCHANGED <<op, input, trail, value, err, text, base, ref, pkg>>

\* iri.ResolveReference(other)
GoResolveReference(g) ==
  /\ calls[g].pc = "ResolveReference"
  /\ calls' = [calls EXCEPT ![g] =
                 [@ EXCEPT !.pc = "done", !.result = resolveReference(calls[g].arg[1], calls[g].arg[2])]]
  /\ UNCHANGED <<op, input, trail, value, err, text, base, ref, pkg>>

InitConcurrent ==
  /\ op = "value"
  /\ input = <<>>
  /\ value = ZeroIRI
  /\ trail = <<>>
  /\ err = ""
  /\ text = <<>>
  /\ base = ZeroRef
  /\ ref = ZeroRef
  /\ pkg = {}
  /\ calls = [g \in Goroutines |-> IdleFrame]

NextConcurrent ==
  \E g \in Goroutines :
    \/ GoCall(g)
    \/ GoParse(g)
    \/ GoNormalizeBegin(g)
    \/ GoNormalizeReplace(g)
    \/ GoNormalizeReturn(g)
    \/ GoString(g)
    \/ GoResolveReference(g)

SpecConcurrent == InitConcurrent /\ [][NextConcurrent]_vars

\* ---------------------------------------------------------------------------
\* The loops of resolvePath and of the normalization, one iteration a step
\* ---------------------------------------------------------------------------

\* The frame of one goroutine before it calls: the function and its position,
\* the parameters and locals of resolvePath, and those of the function
\* literal that normalizePercentEncoding gives to ReplaceAllStringFunc.
LoopFrame ==
  [fn |-> "", pc |-> "call", result |-> <<>>,
   base |-> <<>>, ref |-> <<>>, full |-> <<>>, last |-> <<>>, elem |-> <<>>, i |-> 0,
   dst |-> <<>>, first |-> TRUE, remaining |-> <<>>,
   pctEscaped |-> <<>>, normalized |-> <<>>, unconsumedOctets |-> <<>>, octetsOffset |-> 0,
   errs |-> <<>>]

\* Arguments of resolvePath, and runs of percent-encoded octets of one, two
\* and three octets a code point, well-formed or not.
LoopPaths ==
  {<<b, r>> : b \in {<<>>, Str(<<"/", "b", "/", "c">>)}, r \in Pieces(RefChars, MaxRefChars)}
RunTokens ==
  {Str(<<"%", "3", "4">>), Str(<<"%", "c", "2">>), Str(<<"%", "E", "2">>), Str(<<"%", "8", "2">>),
   Str(<<"%", "E", "F", "%", "B", "F", "%", "B", "D">>)}
LoopRuns == Pieces(RunTokens, MaxPathParts) \ {<<>>}

InitLoops ==
  /\ op = "value"
  /\ input = <<>>
  /\ value = ZeroIRI
  /\ pkg = {}
  /\ trail = <<>>
  /\ err = ""
  /\ text = <<>>
  /\ base = ZeroRef
  /\ ref = ZeroRef
  /\ \/ \E a \in LoopPaths :
          calls = <<[LoopFrame EXCEPT !.fn = "resolvePath", !.base = a[1], !.ref = a[2]]>>
     \/ \E run \in LoopRuns :
          calls = <<[LoopFrame EXCEPT !.fn = "normalizeRun", !.pctEscaped = run]>>

\* A variant of the iteration that leaves the "/" it found in remaining.
ResolvePathIterate_SlashKept ==
  /\ calls[1].fn = "resolvePath"
  /\ calls[1].pc = "loop"
  /\ calls[1].i >= 0
  /\ \E f \in {calls[1]} :
       \E j \in {IndexByte(f.remaining, CodeOf["/"])} :
         calls' = <<[f EXCEPT !.i = j,
                      !.elem = IF j < 0 THEN f.remaining ELSE Slice(f.remaining, 0, j),
                      !.last = IF j < 0 THEN f.remaining ELSE f.last,
                      !.remaining = IF j < 0 THEN <<>> ELSE Slice(f.remaining, j, Len(f.remaining))]>>
  /\ UNCHANGED <<op, input, trail, value, err, text, base, ref, pkg>>

\* resolvePath up to its loop: the switch that merges, the return of the
\* empty path, and the locals.
ResolvePathBegin ==
  /\ calls[1].fn = "resolvePath"
  /\ calls[1].pc = "call"
  /\ \E f \in {calls[1]} :
       \E full \in {IF f.ref = <<>> THEN f.base
                    ELSE IF f.ref[1] # CodeOf["/"]
                         THEN Slice(f.base, 0, LastIndexByte(f.base, CodeOf["/"]) + 1) \o f.ref
                    ELSE f.ref} :
         calls' = <<IF full = <<>>
                    THEN [f EXCEPT !.pc = "done", !.result = <<>>]
                    ELSE [f EXCEPT !.pc = "loop", !.full = full, !.first = TRUE,
                                   !.remaining = full]>>
  /\ UNCHANGED <<op, input, trail, value, err, text, base, ref, pkg>>

\* One iteration of `for i >= 0`.
ResolvePathIterate ==
  /\ calls[1].fn = "resolvePath"
  /\ calls[1].pc = "loop"
  /\ calls[1].i >= 0
  /\ \E f \in {calls[1]} :
       \E j \in {IndexByte(f.remaining, CodeOf["/"])} :
         \E elem \in {IF j < 0 THEN f.remaining ELSE Slice(f.remaining, 0, j)} :
           \E g \in {[f EXCEPT !.i = j, !.elem = elem,
                        !.last = IF j < 0 THEN f.remaining ELSE f.last,
                        !.remaining = IF j < 0 THEN <<>>
                                      ELSE Slice(f.remaining, j + 1, Len(f.remaining))]} :
             calls' =
               <<IF elem = Dot1 THEN [g EXCEPT !.first = FALSE]
                 ELSE IF elem = Dot2
                      THEN IF LastIndexByte(f.dst, CodeOf["/"]) = -1
                           THEN [g EXCEPT !.dst = <<>>, !.first = TRUE]
                           ELSE [g EXCEPT !.dst = Slice(f.dst, 0, LastIndexByte(f.dst, CodeOf["/"]))]
                 ELSE [g EXCEPT !.dst = (IF ~f.first THEN f.dst \o Str(<<"/">>) ELSE f.dst) \o elem,
                                !.first = FALSE]>>
  /\ UNCHANGED <<op, input, trail, value, err, text, base, ref, pkg>>

\* The end of the loop and the statements after it.
ResolvePathReturn ==
  /\ calls[1].fn = "resolvePath"
  /\ calls[1].pc = "loop"
  /\ calls[1].i < 0
  /\ \E f \in {calls[1]} :
       calls' = <<[f EXCEPT !.pc = "done",
                     !.result = Str(<<"/">>) \o TrimPrefixSlash(IF f.last = Dot1 \/ f.last = Dot2
                                                                THEN f.dst \o Str(<<"/">>)
                                                                ELSE f.dst)]>>
  /\ UNCHANGED <<op, input, trail, value, err, text, base, ref, pkg>>

\* The function literal up to its loop.
NormalizeRunBegin ==
  /\ calls[1].fn = "normalizeRun"
  /\ calls[1].pc = "call"
  /\ calls' = <<[calls[1] EXCEPT !.pc = "loop", !.normalized = <<>>,
                   !.unconsumedOctets = octetsFrom(calls[1].pctEscaped), !.octetsOffset = 0]>>
  /\ UNCHANGED <<op, input, trail, value, err, text, base, ref, pkg>>

\* One iteration of `for len(unconsumedOctets) > 0`.
NormalizeRunIterate ==
  /\ calls[1].fn = "normalizeRun"
  /\ calls[1].pc = "loop"
  /\ Len(calls[1].unconsumedOctets) > 0
  /\ \E f \in {calls[1]} :
       \E d \in {DecodeRune(f.unconsumedOctets)} :
         \E octets \in {EncodeRune(d.codePoint)} :
           calls' =
             <<IF d.codePoint = RuneError
               THEN [f EXCEPT !.pc = "done", !.errs = Append(f.errs, "encoding"),
                              !.result = f.pctEscaped]
               ELSE [f EXCEPT
                       !.normalized =
                          f.normalized \o
                            (IF iunreservedRE(<<d.codePoint>>) THEN <<d.codePoint>>
                             ELSE Concat([k \in 1..Len(octets) |->
                                            byteToUppercasePercentEncoding(octets[k])])),
                       !.unconsumedOctets =
                          SubSeq(f.unconsumedOctets, d.size + 1, Len(f.unconsumedOctets)),
                       !.octetsOffset = f.octetsOffset + d.size]>>
  /\ UNCHANGED <<op, input, trail, value, err, text, base, ref, pkg>>

\* The end of the loop and `return normalized`.
NormalizeRunReturn ==
  /\ calls[1].fn = "normalizeRun"
  /\ calls[1].pc = "loop"
  /\ Len(calls[1].unconsumedOctets) = 0
  /\ calls' = <<[calls[1] EXCEPT !.pc = "done", !.result = calls[1].normalized]>>
  /\ UNCHANGED <<op, input, trail, value, err, text, base, ref, pkg>>

NextLoops ==
  \/ ResolvePathBegin
  \/ ResolvePathIterate
  \/ ResolvePathReturn
  \/ NormalizeRunBegin
  \/ NormalizeRunIterate
  \/ NormalizeRunReturn

\* The goroutine that runs the call takes its next step when it has one.
SpecLoops == InitLoops /\ [][NextLoops]_vars /\ WF_vars(NextLoops)

\* ---------------------------------------------------------------------------
\* Properties
\* ---------------------------------------------------------------------------

\* Character repertoires of RFC 3987, stated on single characters.
IsAlpha(c) == (CodeOf["a"] <= c /\ c <= CodeOf["z"]) \/ (CodeOf["A"] <= c /\ c <= CodeOf["Z"])
IsDigit(c) == CodeOf["0"] <= c /\ c <= CodeOf["9"]
IsHexDigit(c) ==
  IsDigit(c) \/ (CodeOf["a"] <= c /\ c <= CodeOf["f"]) \/ (CodeOf["A"] <= c /\ c <= CodeOf["F"])
IsIUnreserved(c) ==
  \/ IsAlpha(c) \/ IsDigit(c)
  \/ c \in {CodeOf["-"], CodeOf["."], CodeOf["_"], CodeOf["~"]}
  \/ InRanges(c, ucschar.r)
IsSubDelim(c) ==
  c \in {CodeOf["!"], CodeOf["$"], CodeOf["&"], CodeOf["'"], CodeOf["("], CodeOf[")"],
         CodeOf["*"], CodeOf["+"], CodeOf[","], CodeOf[";"], CodeOf["="]}
IsPathChar(c) ==
  IsIUnreserved(c) \/ IsSubDelim(c) \/ c \in {CodeOf["%"], CodeOf[":"], CodeOf["@"], CodeOf["/"]}
IsQueryChar(c) == IsPathChar(c) \/ c = CodeOf["?"] \/ InRanges(c, iprivate.r)
IsFragmentChar(c) == IsPathChar(c) \/ c = CodeOf["?"]
\* ALPHA *( ALPHA / DIGIT / "+" / "-" / "." )
IsSchemeName(s) ==
  /\ s # <<>>
  /\ IsAlpha(s[1])
  /\ \A k \in DOMAIN s :
       IsAlpha(s[k]) \/ IsDigit(s[k]) \/ s[k] \in {CodeOf["+"], CodeOf["-"], CodeOf["."]}

\* C1: for every string that Parse accepts, the String of the parsed value
\* is that string, character for character.
C1_RoundTrip == (op = "String" /\ err = "") => text = input

\* The text String writes for the authority of a value: the user information
\* with its "@", then the host.
AuthorityText(v) ==
  (IF v.ForceUserInfo \/ v.UserInfo # <<>> THEN v.UserInfo \o Str(<<"@">>) ELSE <<>>) \o v.Host

\* The serialization rule of the specification.
FormatRule(v) ==
  (IF v.Scheme # <<>> THEN v.Scheme \o Str(<<":">>) ELSE <<>>)
  \o (IF v.EmptyAuth \/ AuthorityText(v) # <<>> THEN Str(<<"/", "/">>) \o AuthorityText(v) ELSE <<>>)
  \o v.Path
  \o (IF v.ForceQuery \/ v.Query # <<>> THEN Str(<<"?">>) \o v.Query ELSE <<>>)
  \o (IF v.ForceFragment \/ v.Fragment # <<>> THEN Str(<<"#">>) \o v.Fragment ELSE <<>>)

\* C2: String writes the scheme and ":" iff the scheme is non-empty, "//" and
\* the authority iff the authority flag is set or the authority is non-empty,
\* the path always, "?" and the query iff the query flag is set or the query
\* is non-empty, "#" and the fragment iff the fragment flag is set or the
\* fragment is non-empty, in this order and nothing else.
C2_StringRule == op = "String" => text = FormatRule(value)

HexValue(c) ==
  IF IsDigit(c) THEN c - CodeOf["0"]
  ELSE IF c >= CodeOf["a"] THEN c - CodeOf["a"] + 10
  ELSE c - CodeOf["A"] + 10

\* A percent-encoded triple, "%" and two hexadecimal digits, begins at the
\* k-th character of s.
IsTriple(s, k) ==
  /\ k >= 1
  /\ k + 2 <= Len(s)
  /\ s[k] = CodeOf["%"]
  /\ IsHexDigit(s[k + 1])
  /\ IsHexDigit(s[k + 2])

\* The characters at which a maximal run of triples begins.
RunStarts(s) == {k \in DOMAIN s : IsTriple(s, k) /\ ~IsTriple(s, k - 3)}

RECURSIVE RunOctets(_, _)
\* The octets of the triples that follow one another from the k-th character.
RunOctets(s, k) ==
  IF IsTriple(s, k) THEN <<16 * HexValue(s[k + 1]) + HexValue(s[k + 2])>> \o RunOctets(s, k + 3)
  ELSE <<>>

\* The well-formed UTF-8 byte sequences of one code point (RFC 3629, section 4).
IsUTF8Encoding(e) ==
  \/ Len(e) = 1 /\ e[1] \in 0..127
  \/ Len(e) = 2 /\ e[1] \in 194..223 /\ e[2] \in 128..191
  \/ /\ Len(e) = 3
     /\ \/ e[1] = 224 /\ e[2] \in 160..191
        \/ e[1] \in (225..236) \cup (238..239) /\ e[2] \in 128..191
        \/ e[1] = 237 /\ e[2] \in 128..159
     /\ e[3] \in 128..191
  \/ /\ Len(e) = 4
     /\ \/ e[1] = 240 /\ e[2] \in 144..191
        \/ e[1] \in 241..243 /\ e[2] \in 128..191
        \/ e[1] = 244 /\ e[2] \in 128..143
     /\ e[3] \in 128..191
     /\ e[4] \in 128..191

RECURSIVE WellFormedUTF8(_)
\* The octets are the UTF-8 encodings of a sequence of code points.
WellFormedUTF8(o) ==
  \/ o = <<>>
  \/ \E n \in 1..4 :
       /\ n <= Len(o)
       /\ IsUTF8Encoding(SubSeq(o, 1, n))
       /\ WellFormedUTF8(SubSeq(o, n + 1, Len(o)))

\* Some maximal run of triples of s is not well-formed UTF-8.
IllFormedRun(s) == \E k \in RunStarts(s) : ~WellFormedUTF8(RunOctets(s, k))

\* C4: Parse fails if a maximal run of percent-encoded triples in the raw
\* authority, path, query or fragment does not decode to well-formed UTF-8.
C4_InvalidEncodingFails ==
  op = "Parse" =>
    \A m \in {uriRE(input)} :
      (\/ IllFormedRun(m.uriREAuthorityGroup)
       \/ IllFormedRun(m.uriREPathGroup)
       \/ IllFormedRun(m.uriREQueryGroup)
       \/ IllFormedRun(m.uriREFragmentGroup)) => err # ""

\* C5: when Parse returns an error, the value it returns has every component
\* string empty and every flag false, and its String is the empty string.
C5_FailureIsZeroValue ==
  /\ (op = "Parse" /\ err # "") =>
       /\ \A f \in {"Scheme", "UserInfo", "Host", "Path", "Query", "Fragment"} : value[f] = <<>>
       /\ \A f \in {"EmptyAuth", "ForceUserInfo", "ForceQuery", "ForceFragment"} : ~value[f]
  /\ (op = "String" /\ err # "") => text = <<>>

\* The String of the value of a Parse that failed for the percent-encoding of
\* a path with well-formed delimiters is empty.
C5_Witness ==
  /\ op = "String"
  /\ err = "encoding"
  /\ uriRE(input).uriREPathGroup # <<>>
  /\ text = <<>>

\* x occurs in s as a contiguous substring.
IsSubstring(x, s) == \E i \in 0..(Len(s) - Len(x)) : SubSeq(s, i + 1, i + Len(x)) = x

\* C6: every component string of a successfully parsed value is an exact
\* substring of the input, and the path is the raw path, escapes untouched.
C6_ComponentsAreExactSubstrings ==
  (op = "Parse" /\ err = "") =>
    /\ \A f \in {"Scheme", "UserInfo", "Host", "Path", "Query", "Fragment"} :
         IsSubstring(value[f], input)
    /\ value.Path = uriRE(input).uriREPathGroup

\* A parsed path that keeps a lower-case escape of a character that the
\* normalization would write literally.
C6_Witness ==
  /\ op = "Parse"
  /\ err = ""
  /\ IsSubstring(Str(<<"%", "c", "2", "%", "B", "5">>), value.Path)
  /\ normalizePercentEncoding(value).iri.Path # value.Path

\* The code point of a well-formed encoding.
ScalarValue(e) ==
  CASE Len(e) = 1 -> e[1]
    [] Len(e) = 2 -> (e[1] - 192) * 64 + (e[2] - 128)
    [] Len(e) = 3 -> (e[1] - 224) * 4096 + (e[2] - 128) * 64 + (e[3] - 128)
    [] Len(e) = 4 -> (e[1] - 240) * 262144 + (e[2] - 128) * 4096 + (e[3] - 128) * 64 + (e[4] - 128)

\* "%" and the two upper-case hexadecimal digits of an octet.
UpperTriple(b) ==
  <<CodeOf["%"], Str(<<"0", "1", "2", "3", "4", "5", "6", "7", "8", "9", "A", "B", "C", "D", "E", "F">>)[(b \div 16) + 1],
    Str(<<"0", "1", "2", "3", "4", "5", "6", "7", "8", "9", "A", "B", "C", "D", "E", "F">>)[(b % 16) + 1]>>

\* What the normalization writes for the encoding e of one code point: the
\* code point itself if it is in iunreserved, else one triple per octet.
EmitCodePoint(e) ==
  IF IsIUnreserved(ScalarValue(e)) THEN <<ScalarValue(e)>>
  ELSE Concat([i \in 1..Len(e) |-> UpperTriple(e[i])])

RECURSIVE EmitRun(_), EmitFirst(_, _)
\* What the normalization writes for the octets of a run, read greedily as
\* UTF-8; -1 stands for octets that are not well-formed.
EmitRun(o) ==
  IF o = <<>> THEN <<>>
  ELSE IF \E n \in 1..4 : n <= Len(o) /\ IsUTF8Encoding(SubSeq(o, 1, n))
       THEN EmitFirst(o, CHOOSE n \in 1..4 : n <= Len(o) /\ IsUTF8Encoding(SubSeq(o, 1, n)))
  ELSE <<-1>>

EmitFirst(o, n) == EmitCodePoint(SubSeq(o, 1, n)) \o EmitRun(SubSeq(o, n + 1, Len(o)))

RECURSIVE NormalizedText(_, _)
\* The normalized form of s from its k-th character on: runs are rewritten,
\* all other characters are copied.
NormalizedText(s, k) ==
  IF k > Len(s) THEN <<>>
  ELSE IF IsTriple(s, k)
       THEN EmitRun(RunOctets(s, k)) \o NormalizedText(s, k + 3 * Len(RunOctets(s, k)))
  ELSE <<s[k]>> \o NormalizedText(s, k + 1)

\* C7: a successful normalization rewrites each maximal run of triples of
\* the path, decoded case-insensitively and read greedily as UTF-8, with the
\* code points of iunreserved written literally and every other code point as
\* upper-case triples of its octets, and copies all other characters.
C7_ComponentNormalization ==
  (op = "Normalize" /\ err = "") => value.Path = NormalizedText(trail[Len(trail)].Path, 1)

\* The run "%20%c2%B5" has become "%20" and the letter U+00B5.
C7_Witness ==
  /\ op = "Normalize"
  /\ err = ""
  /\ trail[Len(trail)].Path = Str(<<"%", "2", "0", "%", "c", "2", "%", "B", "5">>)
  /\ value.Path = Str(<<"%", "2", "0">>) \o <<181>>

EveryPercentBeginsTriple(v) ==
  \A f \in {"UserInfo", "Host", "Path", "Query", "Fragment"} :
    \A k \in DOMAIN v[f] : v[f][k] = CodeOf["%"] => IsTriple(v[f], k)

C9_AllComponentsNormalized ==
  (op = "Normalize" /\ Len(trail) = 1) =>
    /\ (\E f \in {"UserInfo", "Host", "Path", "Query", "Fragment"} : IllFormedRun(trail[1][f]))
         => (err # "" /\ value = ZeroIRI)
    /\ err = "" =>
         /\ \A f \in {"UserInfo", "Host", "Path", "Query", "Fragment"} :
              value[f] = NormalizedText(trail[1][f], 1)
         /\ value.Scheme = trail[1].Scheme

\* C10: the resolution of a reference with a scheme is the reference, in
\* every component and flag, whatever the base.
C10_SchemeReferenceVerbatim ==
  (op = "Resolve" /\ ref.Scheme # <<>>) => value = ref

\* A reference with a scheme and dot segments in its path has been resolved
\* against a base with a scheme, an authority and a path.
C10_Witness ==
  /\ op = "Resolve"
  /\ ref.Scheme # <<>>
  /\ IsSubstring(Dot2, ref.Path)
  /\ base.Scheme # <<>>
  /\ base.Authority # <<>>
  /\ base.Path # <<>>
  /\ value = ref

RECURSIVE SplitSlash(_)
\* The segments of a path: the texts between its "/" characters.
SplitSlash(p) ==
  IF CodeOf["/"] \notin Range(p) THEN <<p>>
  ELSE <<SubSeq(p, 1, (CHOOSE k \in DOMAIN p : p[k] = CodeOf["/"] /\ CodeOf["/"] \notin Range(SubSeq(p, 1, k - 1))) - 1)>>
       \o SplitSlash(SubSeq(p, (CHOOSE k \in DOMAIN p : p[k] = CodeOf["/"] /\ CodeOf["/"] \notin Range(SubSeq(p, 1, k - 1))) + 1, Len(p)))

RECURSIVE JoinSlash(_)
\* The segments written one after the other with "/" between them.
JoinSlash(segs) ==
  IF segs = <<>> THEN <<>>
  ELSE IF Len(segs) = 1 THEN segs[1]
  ELSE segs[1] \o Str(<<"/">>) \o JoinSlash(Tail(segs))

RECURSIVE EmitSegments(_, _, _)
\* The output buffer, as the sequence of the segments emitted, after the
\* segments from the k-th on: "." is dropped (at the very beginning it leaves
\* the output begun, so that the next segment is written after a "/"), ".."
\* removes the segment emitted last, if there is one.
EmitSegments(segs, k, out) ==
  IF k > Len(segs) THEN out
  ELSE IF segs[k] = Str(<<".">>)
       THEN EmitSegments(segs, k + 1, IF out = <<>> THEN << <<>> >> ELSE out)
  ELSE IF segs[k] = Str(<<".", ".">>)
       THEN EmitSegments(segs, k + 1, IF out = <<>> THEN out ELSE SubSeq(out, 1, Len(out) - 1))
  ELSE EmitSegments(segs, k + 1, Append(out, segs[k]))

\* s without one "/" at its beginning.
WithoutLeadingSlash(s) == IF s # <<>> /\ Head(s) = CodeOf["/"] THEN Tail(s) ELSE s

\* The last segment of the path is "." or "..".
EndsInDotSegment(p) ==
  SplitSlash(p)[Len(SplitSlash(p))] \in {Str(<<".">>), Str(<<".", ".">>)}

\* Dot-segment removal, segment by segment; the empty path stays empty.
DotSegmentRemoval(p) ==
  IF p = <<>> THEN <<>>
  ELSE Str(<<"/">>)
       \o WithoutLeadingSlash(JoinSlash(EmitSegments(SplitSlash(p), 1, <<>>))
                              \o (IF EndsInDotSegment(p) THEN Str(<<"/">>) ELSE <<>>))

\* The reference has an authority: its flag is set or its text is non-empty.
RefHasAuthority == ref.ForceAuthority \/ ref.Authority # <<>>

\* C11: for a reference without scheme and with an authority the result is
\* the reference with the scheme of the base and with the dot segments of its
\* path removed, an empty path staying empty; nothing else of the base is used.
C11_NetworkPathReference ==
  (op = "Resolve" /\ ref.Scheme = <<>> /\ RefHasAuthority) =>
    value = [ref EXCEPT !.Scheme = base.Scheme, !.Path = DotSegmentRemoval(ref.Path)]

\* A reference "///../g" with the authority flag alone has been resolved
\* against a base with authority and query; one with an empty path also.
C11_Witness ==
  /\ op = "Resolve"
  /\ ref.Scheme = <<>>
  /\ ref.ForceAuthority
  /\ ref.Path \in {<<>>, Str(<<"/", ".", ".", "/", "g">>)}
  /\ base.Authority # <<>>
  /\ base.Query # <<>>
  /\ value.Path = (IF ref.Path = <<>> THEN <<>> ELSE Str(<<"/", "g">>))
  /\ value.Authority = <<>>
  /\ value.Query = ref.Query

\* The path up to and including its last "/"; nothing if it has no "/".
UpToLastSlash(b) ==
  IF CodeOf["/"] \notin Range(b) THEN <<>>
  ELSE SubSeq(b, 1, CHOOSE k \in DOMAIN b :
                      b[k] = CodeOf["/"] /\ CodeOf["/"] \notin Range(SubSeq(b, k + 1, Len(b))))

\* merge(base.path, ref.path)
Merge(b, r) ==
  IF r = <<>> THEN b
  ELSE IF Head(r) = CodeOf["/"] THEN r
  ELSE UpToLastSlash(b) \o r

\* C12: for a reference with neither scheme nor authority the result has the
\* scheme, the authority and the authority flag of the base, and its path is
\* the merged path with its dot segments removed.
C12_PathMergeBranch ==
  (op = "Resolve" /\ ref.Scheme = <<>> /\ ~RefHasAuthority) =>
    /\ value.Scheme = base.Scheme
    /\ value.ForceAuthority = base.ForceAuthority
    /\ value.Authority = base.Authority
    /\ value.Path = DotSegmentRemoval(Merge(base.Path, ref.Path))

\* "../g" has been resolved against a base with the path "/b/c" and the
\* authority flag alone.
C12_Witness ==
  /\ op = "Resolve"
  /\ ref.Scheme = <<>>
  /\ ~RefHasAuthority
  /\ ref.Path = Str(<<".", ".", "/", "g">>)
  /\ base.Path = Str(<<"/", "b", "/", "c">>)
  /\ base.ForceAuthority
  /\ value.ForceAuthority
  /\ value.Path = Str(<<"/", "g">>)

RefHasQuery == ref.ForceQuery \/ ref.Query # <<>>

\* C14: a reference with no scheme, no authority and an empty path resolves
\* to the scheme, the authority and the path (dot segments removed) of the
\* base, with the query and query flag of the base if the reference has no
\* query and those of the reference otherwise; a reference with a path always
\* keeps its own query.
C14_SameDocumentAndQueryOnly ==
  op = "Resolve" =>
    /\ (ref.Scheme = <<>> /\ ~RefHasAuthority /\ ref.Path = <<>>) =>
          /\ value.Scheme = base.Scheme
          /\ value.ForceAuthority = base.ForceAuthority
          /\ value.Authority = base.Authority
          /\ value.Path = DotSegmentRemoval(base.Path)
          /\ value.Query = (IF RefHasQuery THEN ref.Query ELSE base.Query)
          /\ value.ForceQuery = (IF RefHasQuery THEN ref.ForceQuery ELSE base.ForceQuery)
    /\ ref.Path # <<>> => (value.Query = ref.Query /\ value.ForceQuery = ref.ForceQuery)

\* "#s" has been resolved against a base with a query.
C14_Witness ==
  /\ op = "Resolve"
  /\ ref = [ZeroRef EXCEPT !.Fragment = Str(<<"s">>)]
  /\ base.Path = Str(<<"/", "b", "/", "c">>)
  /\ base.Query = Str(<<"q">>)
  /\ value.Path = base.Path
  /\ value.Query = Str(<<"q">>)
  /\ value.Fragment = Str(<<"s">>)

\* C15, as stated, read for the references it can concern (those with
\* neither scheme nor authority, the others having returned before the query
\* rule): the resolved value has the query and query flag of the base if the
\* resolved path is empty and the reference has no query, and those of the
\* reference otherwise.
C15_QueryByResolvedPath ==
  (op = "Resolve" /\ ref.Scheme = <<>> /\ ~RefHasAuthority) =>
    IF value.Path = <<>> /\ ~RefHasQuery
    THEN value.Query = base.Query /\ value.ForceQuery = base.ForceQuery
    ELSE value.Query = ref.Query /\ value.ForceQuery = ref.ForceQuery

\* C15, amended: the resolved value has the query and query flag of the base
\* if the reference has no scheme, no authority, an empty path and no query,
\* and those of the reference otherwise.
C15_QueryByReferencePath ==
  op = "Resolve" =>
    IF ref.Scheme = <<>> /\ ~RefHasAuthority /\ ref.Path = <<>> /\ ~RefHasQuery
    THEN value.Query = base.Query /\ value.ForceQuery = base.ForceQuery
    ELSE value.Query = ref.Query /\ value.ForceQuery = ref.ForceQuery

\* The empty reference has been resolved against a base with a path and the
\* query flag alone: the resolved path is not empty and the query flag is
\* that of the base.
C15_Witness ==
  /\ op = "Resolve"
  /\ ref = ZeroRef
  /\ base.ForceQuery
  /\ base.Path # <<>>
  /\ value.Path # <<>>
  /\ value.ForceQuery
  /\ value.Query = <<>>

\* The number of directory levels of a base path: its segments that end in
\* "/", the root apart.
Levels(b) ==
  Cardinality({k \in DOMAIN b : b[k] = CodeOf["/"]})
    - (IF b # <<>> /\ Head(b) = CodeOf["/"] THEN 1 ELSE 0)

\* k times "../"
RECURSIVE Ascents(_)
Ascents(k) == IF k = 0 THEN <<>> ELSE Str(<<".", ".", "/">>) \o Ascents(k - 1)

\* C16: a reference path of k ".." segments followed by the segment g, with k
\* at least the number of directory levels of the base path, resolves to the
\* path "/g".
C16_AscentPastRootAbsorbed ==
  (/\ op = "Resolve"
   /\ ref.Scheme = <<>>
   /\ ~RefHasAuthority
   /\ \E k \in 0..MaxSegments :
        k >= Levels(base.Path) /\ ref.Path = Ascents(k) \o Str(<<"g">>))
    => value.Path = Str(<<"/", "g">>)

\* "../../g" has been resolved against a base path of one directory level.
C16_Witness ==
  /\ op = "Resolve"
  /\ ref.Scheme = <<>>
  /\ ~RefHasAuthority
  /\ base.Path = Str(<<"/", "b", "/", "c">>)
  /\ Levels(base.Path) = 1
  /\ ref.Path = Ascents(2) \o Str(<<"g">>)
  /\ value.Path = Str(<<"/", "g">>)

\* The text of s before the first character of s that is in cs (all of s if
\* there is none), and the text after that character.
Before(s, cs) ==
  IF \E k \in DOMAIN s : s[k] \in cs
  THEN SubSeq(s, 1, (CHOOSE k \in DOMAIN s : s[k] \in cs /\ \A j \in 1..(k - 1) : s[j] \notin cs) - 1)
  ELSE s
After(s, cs) == SubSeq(s, Len(Before(s, cs)) + 2, Len(s))

\* The query marker occurs before any "#"; the query runs up to the "#".
HasQueryMark(s) == CodeOf["?"] \in Range(Before(s, {CodeOf["#"]}))
QueryText(s) == After(Before(s, {CodeOf["#"]}), {CodeOf["?"]})
HasFragmentMark(s) == CodeOf["#"] \in Range(s)
FragmentText(s) == After(s, {CodeOf["#"]})

\* What follows the scheme and its colon, up to the query or fragment.
HierPart(s) ==
  LET h == Before(s, {CodeOf["?"], CodeOf["#"]})
  IN IF CodeOf[":"] \in Range(Before(h, {CodeOf["/"]})) /\ Before(h, {CodeOf[":"]}) # <<>>
     THEN After(h, {CodeOf[":"]})
     ELSE h
HasAuthorityMark(s) == Len(HierPart(s)) >= 2 /\ SubSeq(HierPart(s), 1, 2) = Str(<<"/", "/">>)
AuthorityTextOf(s) == Before(SubSeq(HierPart(s), 3, Len(HierPart(s))), {CodeOf["/"]})

\* C17: after a successful Parse each presence flag is true exactly when its
\* marker ("//", "?", "#") occurs in the input and the component after the
\* marker is empty.
C17_PresenceFlags ==
  (op = "Parse" /\ err = "") =>
    /\ value.EmptyAuth = (HasAuthorityMark(input) /\ AuthorityTextOf(input) = <<>>)
    /\ value.ForceQuery = (HasQueryMark(input) /\ QueryText(input) = <<>>)
    /\ value.ForceFragment = (HasFragmentMark(input) /\ FragmentText(input) = <<>>)

\* What a call returns when it runs alone.
Alone(fn, arg) ==
  CASE fn = "Parse" -> Parse(arg)
    [] fn = "NormalizePercentEncoding" -> NormalizePercentEncoding(arg)
    [] fn = "String" -> String(arg)
    [] fn = "ResolveReference" -> resolveReference(arg[1], arg[2])

\* C18: whatever the interleaving of the calls, no package-level variable is
\* assigned after the initialization, and every call that has returned has
\* returned what it returns when run alone.
C18_ConcurrencySafe ==
  /\ pkg = {}
  /\ \A g \in DOMAIN calls :
       calls[g].pc = "done" => calls[g].result = Alone(calls[g].fn, calls[g].arg)

\* One call has recorded an invalid encoding and not yet returned, while
\* another, begun and ended meanwhile, has returned a normalized path.
C18_Witness ==
  \E g, h \in DOMAIN calls :
    /\ calls[g].pc = "return"
    /\ calls[g].errs # <<>>
    /\ calls[h].pc = "done"
    /\ calls[h].fn = "NormalizePercentEncoding"
    /\ calls[h].arg.Path = Str(<<"%", "4", "1">>)
    /\ calls[h].result.Path = Str(<<"A">>)

\* C19, as stated, for the paths on which dot-segment removal adds no leading
\* "/" (the empty path and the paths that begin with "/"): a reference with
\* a scheme resolves to itself with the dot segments of its path removed.
C19_SchemeReferencePathResolved ==
  (/\ op = "Resolve"
   /\ ref.Scheme # <<>>
   /\ (ref.Path = <<>> \/ Head(ref.Path) = CodeOf["/"]))
    => value = [ref EXCEPT !.Path = DotSegmentRemoval(ref.Path)]

\* The ":" that ends a scheme: the first one, if no "/", "?" or "#" comes
\* before it and some text does.
HasSchemeColon(s) ==
  /\ CodeOf[":"] \in Range(Before(s, {CodeOf["/"], CodeOf["?"], CodeOf["#"]}))
  /\ Before(s, {CodeOf[":"]}) # <<>>

\* C20, as stated: Parse never fails for an invalid scheme, a text before the
\* first ":" that is no scheme name being left to the path.
C20_SchemeSplitFallback == op = "Parse" => err # "scheme"

\* C20, amended: the text before the ":" that ends a scheme is the scheme of
\* the parsed value, and Parse fails for an invalid scheme, with the zero
\* value, exactly when that text is not a scheme name; there is no second
\* split.
C20_InvalidSchemeFails ==
  op = "Parse" =>
    /\ err = "scheme" <=> (HasSchemeColon(input) /\ ~IsSchemeName(Before(input, {CodeOf[":"]})))
    /\ err = "scheme" => value = ZeroIRI
    /\ err = "" =>
         value.Scheme = (IF HasSchemeColon(input) THEN Before(input, {CodeOf[":"]}) ELSE <<>>)

\* Parse has rejected "@:" and what may follow it for its scheme, where a
\* second split would have found a path.
C20_Witness ==
  /\ op = "Parse"
  /\ err = "scheme"
  /\ Before(input, {CodeOf[":"]}) = Str(<<"@">>)
  /\ ipathRE(input)
  /\ value = ZeroIRI

\* C21: no input that Parse accepts contains a space.
C21_SpaceRejected == (op = "Parse" /\ err = "") => CodeOf[" "] \notin Range(input)

\* s begins with "//".
BeginsWithTwoSlashes(s) == Len(s) >= 2 /\ s[1] = CodeOf["/"] /\ s[2] = CodeOf["/"]

\* C22: the output of the dot-segment removal, for a path that is not empty
\* and does not itself begin with "//", begins with "/" and not with "//".
C22_SingleLeadingSlash ==
  (/\ op = "Resolve"
   /\ ref.Scheme = <<>>
   /\ ~BeginsWithTwoSlashes(ref.Path)
   /\ ~BeginsWithTwoSlashes(base.Path)
   /\ value.Path # <<>>)
    => (Head(value.Path) = CodeOf["/"] /\ ~BeginsWithTwoSlashes(value.Path))

\* The path given to the dot-segment removal: that of the reference if it has
\* an authority, the merged path otherwise.
MergedPath == IF RefHasAuthority THEN ref.Path ELSE Merge(base.Path, ref.Path)
LastSegment(p) == SplitSlash(p)[Len(SplitSlash(p))]
DotSegments == {Str(<<".">>), Str(<<".", ".">>)}
EndsWithOneSlash(p) ==
  /\ p # <<>>
  /\ p[Len(p)] = CodeOf["/"]
  /\ Len(p) >= 2 => p[Len(p) - 1] # CodeOf["/"]

\* C23, as stated, apart from the resolved paths of C22: a merged path whose
\* last segment is "." or ".." resolves to a path that ends with exactly one
\* "/", and one whose last segment is another non-empty segment to a path
\* with that last segment.
C23_TrailingSlash ==
  (/\ op = "Resolve"
   /\ ref.Scheme = <<>>
   /\ MergedPath # <<>>
   /\ ~BeginsWithTwoSlashes(value.Path))
    => /\ LastSegment(MergedPath) \in DotSegments => EndsWithOneSlash(value.Path)
       /\ LastSegment(MergedPath) \notin DotSegments \cup {<<>>}
            => LastSegment(value.Path) = LastSegment(MergedPath)

\* C23, amended: after a last segment "." or ".." one "/" is appended to what
\* was emitted, so that the resolved path ends with "/", and with exactly one
\* unless the merged path has an empty segment; after another non-empty last
\* segment the resolved path ends with that segment.
C23_TrailingSlashAppended ==
  (op = "Resolve" /\ ref.Scheme = <<>> /\ MergedPath # <<>>)
    => /\ LastSegment(MergedPath) \in DotSegments
            => /\ value.Path[Len(value.Path)] = CodeOf["/"]
               /\ ~IsSubstring(Str(<<"/", "/">>), MergedPath) => EndsWithOneSlash(value.Path)
       /\ LastSegment(MergedPath) \notin DotSegments \cup {<<>>}
            => LastSegment(value.Path) = LastSegment(MergedPath)

\* "g//." has been resolved against a base with the path "/b/c".
C23_Witness ==
  /\ op = "Resolve"
  /\ ref.Scheme = <<>>
  /\ ~RefHasAuthority
  /\ base.Path = Str(<<"/", "b", "/", "c">>)
  /\ ref.Path = Str(<<"g", "/", "/", ".">>)
  /\ value.Path = Str(<<"/", "b", "/", "g", "/", "/">>)

\* C24: a merged path with no segment equal to "." or ".." is resolved to
\* itself with one leading "/", whatever dots its segments contain; the
\* segments of a resolved path are segments of the merged path; the query and
\* the fragment of the reference are returned as they are.
C24_OnlyCompleteDotSegments ==
  (op = "Resolve" /\ ref.Scheme = <<>>)
    => /\ (MergedPath # <<>> /\ Range(SplitSlash(MergedPath)) \cap DotSegments = {})
            => value.Path = Str(<<"/">>) \o WithoutLeadingSlash(MergedPath)
       /\ Range(SplitSlash(value.Path)) \subseteq Range(SplitSlash(MergedPath)) \cup {<<>>}
       /\ RefHasQuery => value.Query = ref.Query
       /\ value.Fragment = ref.Fragment

\* "..g/." with a query and a fragment that hold dot segments has been
\* resolved against a base with the path "/b/c".
C24_Witness ==
  /\ op = "Resolve"
  /\ ref.Scheme = <<>>
  /\ ~RefHasAuthority
  /\ base.Path = Str(<<"/", "b", "/", "c">>)
  /\ ref.Path = Str(<<".", ".", "g", "/", ".">>)
  /\ value.Path = Str(<<"/", "b", "/", ".", ".", "g", "/">>)
  /\ value.Query = Str(<<"y", "/", ".", ".", "/", "x">>)
  /\ value.Fragment = Str(<<"s", "/", ".", "/", "x">>)

\* Parse accepts the text of v and returns the component strings of v.
ReparsesToItself(v) ==
  \E r \in {Parse(Format(v))} :
    /\ r.err = ""
    /\ r.iri.Scheme = v.Scheme
    /\ AuthorityText(r.iri) = v.Authority
    /\ r.iri.Path = v.Path
    /\ r.iri.Query = v.Query
    /\ r.iri.Fragment = v.Fragment

\* C25: a reference resolved against a base, both as Parse returns them, is a
\* value whose text Parse accepts and splits into the same scheme, authority,
\* path, query and fragment.
C25_ResolvedValueReparses ==
  (op = "Resolve" /\ ReparsesToItself(base) /\ ReparsesToItself(ref)) => ReparsesToItself(value)

\* C26: a value for which Check returns no error is one whose text Parse
\* splits into the scheme, authority, path, query and fragment of the value.
C26_CheckSound ==
  (op = "Check" /\ err = "") =>
    \E r \in {Parse(String(value))} :
      /\ r.iri.Scheme = value.Scheme
      /\ AuthorityText(r.iri) = AuthorityText(value)
      /\ r.iri.Path = value.Path
      /\ r.iri.Query = value.Query
      /\ r.iri.Fragment = value.Fragment

\* C27: the normalization returns an error only for a path in which some
\* maximal run of percent-encoded triples is not well-formed UTF-8.
C27_FailsOnlyForMalformed ==
  (op = "Normalize" /\ err # "") => IllFormedRun(trail[Len(trail)].Path)

\* C28: when the reference has no scheme, no segment of the resolved path
\* is "." or "..".
C28_NoDotSegmentSurvives ==
  (op = "Resolve" /\ ref.Scheme = <<>>) =>
    Range(SplitSlash(value.Path)) \cap DotSegments = {}

\* A reference of both dot segments against a base with two levels was
\* resolved.
C28_Witness ==
  /\ op = "Resolve"
  /\ base.Path = Str(<<"/", "b", "/", "c">>)
  /\ ref.Scheme = <<>>
  /\ ref.Authority = <<>>
  /\ ref.Path = Str(<<".", "/", ".", ".", "/">>)
  /\ value.Path = Str(<<"/">>)

InLoop(fn) == calls[1].fn = fn /\ calls[1].pc = "loop"

\* An iteration of the loop of resolvePath takes the first segment of the
\* remainder, with the "/" after it when there is one.
TakesFirstSegment ==
  (InLoop("resolvePath") /\ calls[1].i >= 0) =>
    \/ /\ calls'[1].i >= 0
       /\ calls[1].remaining = calls'[1].elem \o Str(<<"/">>) \o calls'[1].remaining
    \/ /\ calls'[1].i < 0
       /\ CodeOf["/"] \notin Range(calls[1].remaining)
       /\ calls'[1].elem = calls[1].remaining
       /\ calls'[1].remaining = <<>>

\* An iteration of the decoding loop consumes an octet or more, or stops with
\* an error.
ConsumesOrFails ==
  (InLoop("normalizeRun") /\ Len(calls[1].unconsumedOctets) > 0) =>
    \/ /\ calls'[1].pc = "loop"
       /\ Len(calls'[1].unconsumedOctets) < Len(calls[1].unconsumedOctets)
    \/ /\ calls'[1].pc = "done"
       /\ calls'[1].errs # <<>>

\* A call that has returned has returned what the function returns.
ReturnsResult ==
  calls[1].pc = "done" =>
    calls[1].result = IF calls[1].fn = "resolvePath" THEN resolvePath(calls[1].base, calls[1].ref)
                      ELSE normalizeRun(calls[1].pctEscaped, octetsFrom(calls[1].pctEscaped)).text

\* C30: both loops end; every iteration of the loop of resolvePath takes the
\* first segment of the remainder and leaves a shorter remainder; every
\* iteration of the decoding loop consumes an octet or stops with an error.
C30_LoopsTerminate ==
  /\ <>(calls[1].pc = "done")
  /\ [][TakesFirstSegment]_vars
  /\ [][(InLoop("resolvePath") /\ calls[1].i >= 0) =>
          Len(calls'[1].remaining) < Len(calls[1].remaining)]_vars
  /\ [][ConsumesOrFails]_vars

\* C30 (amended): both loops end with the result of the function; every
\* iteration of the loop of resolvePath takes the first segment of the
\* remainder, and leaves a shorter remainder unless the remainder is empty
\* already, which is the last iteration of a path that ends with "/"; every
\* iteration of the decoding loop consumes an octet or stops with an error.
C30_LoopsTerminateLastEmpty ==
  /\ <>(calls[1].pc = "done")
  /\ [](ReturnsResult)
  /\ [][TakesFirstSegment]_vars
  /\ [][(InLoop("resolvePath") /\ calls[1].i >= 0) =>
          \/ Len(calls'[1].remaining) < Len(calls[1].remaining)
          \/ calls[1].remaining = <<>> /\ calls'[1].i < 0]_vars
  /\ [][ConsumesOrFails]_vars

\* resolvePath has returned for a path of three segments that ends with "/",
\* the last one empty.
C30_Witness ==
  /\ calls # <<>>
  /\ calls[1].fn = "resolvePath"
  /\ calls[1].pc = "done"
  /\ calls[1].full = Str(<<".", ".", "/", "g", "/">>)
  /\ calls[1].remaining = <<>>
  /\ calls[1].result = Str(<<"/", "g", "/">>)

====
